---- MODULE Spec2Model ----
(***************************************************************************)
(* Model of the conversation-testing library: the deep-merge utilities of  *)
(* merge.ts over an explicit object heap (so that reference identity and   *)
(* mutation are observable), and the ActionsOnGoogleTestManager state      *)
(* machine of action-on-google-test-manager.ts.                            *)
(***************************************************************************)
EXTENDS Integers, Sequences, FiniteSets, TLC

(***************************************************************************)
(* JavaScript values.  Every value is a record of the same shape so that   *)
(* any two values can be compared: t is the type tag, s the payload of a   *)
(* primitive, a the heap address of an object reference.                   *)
(***************************************************************************)
Str(s) == [t |-> "prim", s |-> s, a |-> 0]
Ref(a) == [t |-> "ref", s |-> "", a |-> a]
UNDEFINED == [t |-> "undefined", s |-> "", a |-> 0]
NULL == [t |-> "null", s |-> "", a |-> 0]
\* what the model's initial objects write for a key they do not have
ABSENT == [t |-> "absent", s |-> "", a |-> 0]

\* The property names of ISendInteractionRequest that the library touches.
Keys ==
  {"input", "type", "query", "deviceProperties", "locale", "surface",
   "timeZone", "location", "coordinates", "latitude", "longitude",
   "conversationToken", "project"}

\* Object.keys enumerates in a fixed order; the merge result does not depend
\* on it.
KeySeq ==
  <<"input", "type", "query", "deviceProperties", "locale", "surface",
    "timeZone", "location", "coordinates", "latitude", "longitude",
    "conversationToken", "project">>

NoFields == [k \in {} |-> UNDEFINED]

\* A heap node: kind "object" is a plain JSON object (constructor === Object);
\* "array", "function" and "instance" are the non-plain objects.  f maps the
\* node's own keys to their values.
Node(kind, fs) ==
  [kind |-> kind,
   f |-> [k \in {x \in DOMAIN fs : fs[x] # ABSENT} |-> fs[k]]]

EmptyObject == [kind |-> "object", f |-> NoFields]

\* Allocation of a new object: the heap is a sequence of nodes, an address is
\* an index into it.
Alloc(h, node) == [h |-> Append(h, node), v |-> Ref(Len(h) + 1)]

\* obj[key]: reading a missing key yields undefined.
Get(h, obj, key) ==
  IF key \in DOMAIN h[obj.a].f THEN h[obj.a].f[key] ELSE UNDEFINED

\* obj[key] = val
SetField(h, obj, key, val) ==
  [h EXCEPT ![obj.a].f =
     [k \in DOMAIN @ \cup {key} |-> IF k = key THEN val ELSE @[k]]]

RECURSIVE KeysFrom(_, _)
KeysFrom(fields, ks) ==
  IF ks = <<>> THEN <<>>
  ELSE IF Head(ks) \notin DOMAIN fields THEN KeysFrom(fields, Tail(ks))
  ELSE <<Head(ks)>> \o KeysFrom(fields, Tail(ks))

\* Object.keys(obj)
ObjectKeys(h, obj) == KeysFrom(h[obj.a].f, KeySeq)

KeySet(h, obj) == DOMAIN h[obj.a].f

(***************************************************************************)
(* merge.ts                                                                *)
(***************************************************************************)
\* A check that takes every object (typeof obj === 'object') for a plain one.
isAnyObject(h, obj) == obj.t = "ref" /\ h[obj.a].kind # "function"

\* !!obj && typeof obj === 'object' && obj.constructor === Object
isPlainObject(h, obj) == obj.t = "ref" /\ h[obj.a].kind = "object"

RECURSIVE getDeepMerge(_, _, _)
RECURSIVE deepClone(_, _)
RECURSIVE unprotectedDeepMerge(_, _, _)
RECURSIVE mergeKeys(_, _, _, _, _)

\* A loop body that also stores the merged value back into the target:
\*   result[key] = target[key] = getDeepMerge(base[key], target[key])
assignKeyIntoTarget(h, result, base, target, key) ==
  LET m == getDeepMerge(h, Get(h, base, key), Get(h, target, key))
  IN  SetField(SetField(m.h, target, key, m.v), result, key, m.v)

\* A loop body that clears a key the base already has:
\*   result[key] = key in base ? undefined : getDeepMerge(base[key], target[key])
assignKeyUnlessInBase(h, result, base, target, key) ==
  LET m == getDeepMerge(h, Get(h, base, key), Get(h, target, key))
  IN  IF key \in KeySet(h, base) THEN SetField(h, result, key, UNDEFINED)
      ELSE SetField(m.h, result, key, m.v)

\* The body of the for loop of unprotectedDeepMerge:
\*   result[key] = getDeepMerge(base[key], target[key])
assignKey(h, result, base, target, key) ==
  LET m == getDeepMerge(h, Get(h, base, key), Get(h, target, key))
  IN  SetField(m.h, result, key, m.v)

\* for (const key of Object.keys(target)) ...
mergeKeys(h, result, base, target, ks) ==
  IF ks = <<>> THEN [h |-> h, v |-> result]
  ELSE mergeKeys(assignKey(h, result, base, target, Head(ks)),
                 result, base, target, Tail(ks))

\* A spread that drops the base's own properties: const result = {}.
spreadEmpty(h, base) == Alloc(h, EmptyObject)

\* const result = {...base}: a new plain object with base's own properties.
spread(h, base) == Alloc(h, [kind |-> "object", f |-> h[base.a].f])

unprotectedDeepMerge(h, base, target) ==
  IF ~isPlainObject(h, base) \/ ~isPlainObject(h, target)
  THEN [h |-> h, v |-> target]
  ELSE LET r == spread(h, base)
       IN  mergeKeys(r.h, r.v, base, target, ObjectKeys(r.h, target))

deepClone(h, source) ==
  LET e == Alloc(h, EmptyObject)
  IN  unprotectedDeepMerge(e.h, e.v, source)

getDeepMerge(h, base, target) ==
  LET c == deepClone(h, base)
  IN  unprotectedDeepMerge(c.h, c.v, target)

(***************************************************************************)
(* Helpers for statements about object graphs.                             *)
(***************************************************************************)
\* Addresses of the nodes reachable from the value v (v's own node included).
RECURSIVE ReachFrom(_, _)
ReachFrom(h, v) ==
  IF v.t # "ref" THEN {}
  ELSE {v.a} \cup
       UNION {ReachFrom(h, h[v.a].f[k]) : k \in KeySet(h, v)}

\* Addresses of the plain-object nodes reachable from v.
PlainNodes(h, v) == {a \in ReachFrom(h, v) : h[a].kind = "object"}

\* Structural (deep) equality of v in heap h1 and w in heap h2: plain objects
\* are compared key by key, everything else by identity.
RECURSIVE DeepEqual(_, _, _, _)
DeepEqual(h1, v, h2, w) ==
  IF isPlainObject(h1, v) /\ isPlainObject(h2, w)
  THEN /\ KeySet(h1, v) = KeySet(h2, w)
       /\ \A k \in KeySet(h1, v) :
            DeepEqual(h1, h1[v.a].f[k], h2, h2[w.a].f[k])
  ELSE v = w

(***************************************************************************)
(* State.                                                                  *)
(***************************************************************************)
VARIABLES
  heap,                     \* the object heap
  suiteInteractionDefaults, \* manager field (a value)
  testInteractionDefaults,  \* manager field (a value)
  latestResponse,           \* manager field: <<>> is null, <<r>> a response
  lastUserQuery,            \* manager field
  currentLocale,            \* the locale of the module-level i18n object
  pc,                       \* "idle", or "awaiting" inside sendInteraction
  sentRequest,              \* the request object handed to the service
  callParams,               \* the interactionParams argument of the call
  lastOp,                   \* the operation called last
  outcome,                  \* how it ended: "ok", "pending" or the error
  issued,                   \* whether it issued a request to the service
  prevResponse,             \* latestResponse when the operation was called
  checked,                  \* the response the last getter/assertion read
  answered,                 \* history: last response the service delivered
  answeredQuery,            \* history: the query of the request it answered
  lastReturned,             \* history: response of the last send that returned
  steps,                    \* number of operations called
  mBase, mTarget,           \* merge.ts under test: the two arguments
  mResult,                  \* ... the returned value
  mOp,                      \* ... the function applied
  mCalls,                   \* ... number of calls made
  returned,                 \* what the last getter returned: <<>> or <<v>>
  errorInfo,                \* what the error raised last carries
  callArgs,                 \* the arguments of the getter or assertion called,
                            \* the optional response first
  reads,                    \* getters and assertions called since the last
                            \* other operation
  dField, dNative,          \* the decoder under test: typed and native input
  dResult,                  \* ... what it returned, or that it raised
  dOp,                      \* ... the function applied
  miOp,                     \* the match-intents assertions called, their
                            \* arguments, the last one last
  miIndex,                  \* ... index of the test case being matched
  failedQueries,            \* ... the mismatches collected so far
  miCalls,                  \* ... the match-intents calls issued, in order
  miAnswers,                \* ... the responses to them, in order
  other,                    \* the fields of a second manager instance
  inFlight                  \* the requests of sends that were not awaited

managerVars ==
  <<other, suiteInteractionDefaults, testInteractionDefaults, latestResponse,
    lastUserQuery, currentLocale, pc, sentRequest, callParams, lastOp,
    outcome, issued, prevResponse, checked, returned, errorInfo, callArgs, reads, answered, answeredQuery, lastReturned, steps>>

mergeVars == <<mBase, mTarget, mResult, mOp, mCalls>>

readVars == <<returned, errorInfo, callArgs, reads>>

decoderVars == <<dField, dNative, dResult, dOp>>

matchVars == <<miOp, miIndex, failedQueries, miCalls, miAnswers>>

concurrentVars == <<inFlight>>

extraVars == <<decoderVars, matchVars, concurrentVars>>

vars == <<heap, managerVars, mergeVars, readVars, extraVars>>

\* an error: its kind, the query text it carries (<<>> when it carries none)
\* and the actual and expected values it carries
Error(kind, query, actual, expected) ==
  [kind |-> kind, query |-> query, actual |-> actual, expected |-> expected]

NoError == Error("none", <<>>, <<>>, <<>>)

\* the operation read no response and returned nothing
NothingRead ==
  /\ checked' = <<>>
  /\ returned' = <<>>
  /\ errorInfo' = NoError
  /\ callArgs' = <<>>
  /\ reads' = 0

\* the decoder and the match-intents assertions before they are used
DecoderIdle ==
  /\ dField = <<>>
  /\ dNative = <<>>
  /\ dResult = <<>>
  /\ dOp = "none"

\* the fields of a manager instance; id is its number
Manager(id, suite, test, response, query) ==
  [id |-> id, suiteInteractionDefaults |-> suite,
   testInteractionDefaults |-> test, latestResponse |-> response,
   lastUserQuery |-> query]

\* a run with one manager instance whose sends are awaited
OneManager ==
  /\ other = Manager(0, UNDEFINED, UNDEFINED, <<>>, NULL)
  /\ inFlight = <<>>

MatchIdle ==
  /\ miOp = <<>>
  /\ miIndex = 0
  /\ failedQueries = <<>>
  /\ miCalls = <<>>
  /\ miAnswers = <<>>

(***************************************************************************)
(* merge.ts applied to bounded inputs.                                     *)
(***************************************************************************)
\* number of further merges applied to a result
MaxMergeCalls == 2

Locales == {Str("en-US"), Str("fr-FR")}
Surfaces == {Str("PHONE"), Str("SMART_DISPLAY")}
InputTypes == {Str("VOICE"), Str("KEYBOARD")}

\* The input heap: node 1 is the root of A and node 2 its nested object, node
\* 3 the root of B and node 4 its nested object, node 5 an array, node 6 a
\* function and node 7 a class instance.
ARRAY_OBJECT == Ref(5)
FUNCTION_OBJECT == Ref(6)
CLASS_OBJECT == Ref(7)

NestedObjects ==
  {Node("object", fs) :
     fs \in UNION {[D -> Locales \cup Surfaces] : D \in SUBSET {"locale", "surface"}}}

WellTypedNested ==
  {n \in NestedObjects :
     /\ ("locale" \in DOMAIN n.f => n.f["locale"] \in Locales)
     /\ ("surface" \in DOMAIN n.f => n.f["surface"] \in Surfaces)}

\* the values a root may hold under deviceProperties: r is the address of the
\* root's own nested object
DevicePropertiesValues(r) == {ABSENT, NULL, ARRAY_OBJECT, CLASS_OBJECT, Ref(r)}
InputValues == {ABSENT, FUNCTION_OBJECT} \cup InputTypes

\* roots of plain-object trees, and the non-plain values
TopValues(root) == {Ref(root), UNDEFINED, NULL, Str("PHONE"), ARRAY_OBJECT, FUNCTION_OBJECT, CLASS_OBJECT}

MergeInit ==
  /\ \E nA \in WellTypedNested, nB \in WellTypedNested,
        dA \in DevicePropertiesValues(2), dB \in DevicePropertiesValues(4),
        iA \in InputValues, iB \in InputValues :
       \* a nested object that is not referenced is left empty
       /\ (dA # Ref(2) => nA = EmptyObject)
       /\ (dB # Ref(4) => nB = EmptyObject)
       /\ heap = << Node("object", ("deviceProperties" :> dA) @@ ("input" :> iA)),
                    nA,
                    Node("object", ("deviceProperties" :> dB) @@ ("input" :> iB)),
                    nB,
                    [kind |-> "array", f |-> NoFields],
                    [kind |-> "function", f |-> NoFields],
                    [kind |-> "instance", f |-> NoFields] >>
  /\ mBase \in TopValues(1)
  /\ mTarget \in TopValues(3)
  \* a root that is not an argument is left empty
  /\ (mBase # Ref(1) => heap[1] = EmptyObject)
  /\ (mTarget # Ref(3) => heap[3] = EmptyObject)
  /\ mResult = UNDEFINED
  /\ mOp = "none"
  /\ mCalls = 0
  /\ suiteInteractionDefaults = UNDEFINED
  /\ testInteractionDefaults = UNDEFINED
  /\ latestResponse = <<>>
  /\ lastUserQuery = NULL
  /\ currentLocale = "en-US"
  /\ pc = "idle"
  /\ sentRequest = UNDEFINED
  /\ callParams = UNDEFINED
  /\ lastOp = "none"
  /\ outcome = "none"
  /\ issued = FALSE
  /\ prevResponse = <<>>
  /\ checked = <<>>
  /\ answered = <<>>
  /\ answeredQuery = <<>>
  /\ lastReturned = <<>>
  /\ steps = 0
  /\ returned = <<>>
  /\ errorInfo = NoError
  /\ callArgs = <<>>
  /\ reads = 0
  /\ DecoderIdle
  /\ MatchIdle
  /\ OneManager

\* result = getDeepMerge(A, B)
CallGetDeepMerge ==
  /\ mOp = "none"
  /\ LET m == getDeepMerge(heap, mBase, mTarget)
     IN  /\ heap' = m.h
         /\ mResult' = m.v
  /\ mOp' = "getDeepMerge"
  /\ mCalls' = 1
  /\ UNCHANGED <<mBase, mTarget, managerVars, readVars, extraVars>>

\* result = deepClone(B)
CallDeepClone ==
  /\ mOp = "none"
  /\ LET m == deepClone(heap, mTarget)
     IN  /\ heap' = m.h
         /\ mResult' = m.v
  /\ mOp' = "deepClone"
  /\ mCalls' = 1
  /\ UNCHANGED <<mBase, mTarget, managerVars, readVars, extraVars>>

\* result = getDeepMerge(result, B): the previous result merged with the
\* same override again.
CallMergeAgain ==
  /\ mOp \in {"getDeepMerge", "mergeAgain"}
  /\ mCalls < MaxMergeCalls
  /\ LET m == getDeepMerge(heap, mResult, mTarget)
     IN  /\ heap' = m.h
         /\ mResult' = m.v
         /\ mBase' = mResult
  /\ mOp' = "mergeAgain"
  /\ mCalls' = mCalls + 1
  /\ UNCHANGED <<mTarget, managerVars, readVars, extraVars>>

MergeNext == CallGetDeepMerge \/ CallDeepClone \/ CallMergeAgain

MergeSpec == MergeInit /\ [][MergeNext]_vars

(***************************************************************************)
(* Properties of merge.ts (checked under MergeSpec).                       *)
(***************************************************************************)
\* r is what the merge contract prescribes for base b and override o: key set
\* the union, override keys merged recursively, base-only keys taken from b,
\* and the override itself wherever one side is not a plain object.
RECURSIVE MergedAs(_, _, _, _)
MergedAs(h, r, b, o) ==
  IF isPlainObject(h, b) /\ isPlainObject(h, o)
  THEN /\ isPlainObject(h, r)
       /\ KeySet(h, r) = KeySet(h, b) \cup KeySet(h, o)
       /\ \A k \in KeySet(h, o) :
            MergedAs(h, Get(h, r, k), Get(h, b, k), Get(h, o, k))
       /\ \A k \in KeySet(h, b) \ KeySet(h, o) : Get(h, r, k) = Get(h, b, k)
  ELSE r = o

\* the scenario {deviceProperties:{locale:'en-US',surface:'PHONE'}} merged
\* with {deviceProperties:{surface:'SMART_DISPLAY'}}
ScenarioInputs ==
  /\ mBase = Ref(1) /\ mTarget = Ref(3)
  /\ heap[1] = Node("object", "deviceProperties" :> Ref(2))
  /\ heap[2] = Node("object", ("locale" :> Str("en-US")) @@ ("surface" :> Str("PHONE")))
  /\ heap[3] = Node("object", "deviceProperties" :> Ref(4))
  /\ heap[4] = Node("object", "surface" :> Str("SMART_DISPLAY"))

ScenarioResult ==
  /\ isPlainObject(heap, mResult)
  /\ KeySet(heap, mResult) = {"deviceProperties"}
  /\ isPlainObject(heap, Get(heap, mResult, "deviceProperties"))
  /\ heap[Get(heap, mResult, "deviceProperties").a] =
       Node("object", ("locale" :> Str("en-US")) @@ ("surface" :> Str("SMART_DISPLAY")))

\* C4: for plain-object trees base and override, getDeepMerge(base, override)
\* is a plain object whose key set is the union of both key sets, every
\* override key holding the merge of the two values at that key and every
\* base-only key holding base's value; the locale/surface scenario yields
\* {deviceProperties:{locale:'en-US',surface:'SMART_DISPLAY'}}.
C4_MergeIsKeywiseUnion ==
  (mOp = "getDeepMerge" /\ isPlainObject(heap, mBase) /\ isPlainObject(heap, mTarget))
    => /\ MergedAs(heap, mResult, mBase, mTarget)
       /\ (ScenarioInputs => ScenarioResult)

C4_Witness ==
  /\ mOp = "getDeepMerge"
  /\ ScenarioInputs
  /\ mResult.t = "ref"

\* C5: when base or override is not a plain object, getDeepMerge returns the
\* override itself (the same primitive or the same reference).
NonPlain(v) == v.t # "ref" \/ heap[v.a].kind \in {"array", "function", "instance"}

C5_NonPlainYieldsOverride ==
  (mOp = "getDeepMerge" /\ (NonPlain(mBase) \/ NonPlain(mTarget)))
    => mResult = mTarget

C5_Witness ==
  /\ mOp = "getDeepMerge"
  /\ ~NonPlain(mBase)
  /\ mTarget = ARRAY_OBJECT
  /\ mResult = ARRAY_OBJECT

\* C6: a call of getDeepMerge (or deepClone) leaves every object that existed
\* before the call with the keys and values it had.
C6_MergeDoesNotMutate ==
  [][\A a \in 1..Len(heap) : heap'[a] = heap[a]]_vars

C6_Witness ==
  /\ mOp = "getDeepMerge"
  /\ isPlainObject(heap, mBase) /\ isPlainObject(heap, mTarget)
  /\ isPlainObject(heap, Get(heap, mBase, "deviceProperties"))
  /\ isPlainObject(heap, Get(heap, mTarget, "deviceProperties"))
  /\ Len(heap) > 7

\* C7: deepClone(X) is deep-equal to X, shares no plain-object node with X at
\* any depth, and shares X's non-plain leaves.
C7_CloneIsDeep ==
  mOp = "deepClone"
    => /\ DeepEqual(heap, mResult, heap, mTarget)
       /\ PlainNodes(heap, mResult) \cap PlainNodes(heap, mTarget) = {}

(***************************************************************************)
(* constants.ts                                                            *)
(***************************************************************************)
SUPPORTED_LOCALES ==
  {"en-US", "fr-FR", "ja-JP", "de-DE", "ko-KR", "es-ES", "pt-BR",
   "it-IT", "ru-RU", "hi-IN", "th-TH", "id-ID", "da-DK", "no-NO",
   "nl-NL", "sv-SE", "tr-TR", "pl-PL", "zh-HK", "zh-TW"}

FALLBACK_LOCALES ==
  [l \in {"en-GB", "en-AU", "en-SG", "en-CA", "en-IN", "en-BE", "fr-CA",
          "fr-BE", "es-419", "nl-BE", "de-AT", "de-CH", "de-BE"} |->
     CASE l \in {"en-GB", "en-AU", "en-SG", "en-CA", "en-IN", "en-BE"} -> "en-US"
       [] l \in {"fr-CA", "fr-BE"} -> "fr-FR"
       [] l = "es-419" -> "es-ES"
       [] l = "nl-BE" -> "nl-NL"
       [] OTHER -> "de-DE"]

DEFAULT_LOCALE == "en-US"
DEFAULT_SURFACE == "PHONE"
DEFAULT_INPUT_TYPE == "VOICE"
DEFAULT_LOCATION_LONG == "37.422"
DEFAULT_LOCATION_LAT == "-122.084"
DEFAULT_TIMEZONE == "America/Los_Angeles"
TOKEN_FIELD_NAME == "conversationToken"

\* DEFAULT_INTERACTION_SETTING is one object graph shared by the whole module:
\* its root is node 1, followed by input, deviceProperties, location and
\* coordinates.
DEFAULT_INTERACTION_SETTING == Ref(1)

DefaultHeap ==
  << Node("object", ("input" :> Ref(2)) @@ ("deviceProperties" :> Ref(3))),
     Node("object", "type" :> Str(DEFAULT_INPUT_TYPE)),
     Node("object", ("locale" :> Str(DEFAULT_LOCALE))
                    @@ ("surface" :> Str(DEFAULT_SURFACE))
                    @@ ("timeZone" :> Str(DEFAULT_TIMEZONE))
                    @@ ("location" :> Ref(4))),
     Node("object", "coordinates" :> Ref(5)),
     Node("object", ("latitude" :> Str(DEFAULT_LOCATION_LAT))
                    @@ ("longitude" :> Str(DEFAULT_LOCATION_LONG))) >>

ConstantNodes == 1..Len(DefaultHeap)

(***************************************************************************)
(* Garbage collection: objects no longer referenced by the manager, the    *)
(* caller or the module constants are dropped and the remaining ones keep  *)
(* their relative order.                                                   *)
(***************************************************************************)
RECURSIVE ReachAll(_, _)
ReachAll(h, roots) ==
  IF roots = <<>> THEN {}
  ELSE ReachFrom(h, Head(roots)) \cup ReachAll(h, Tail(roots))

\* the addresses of live that are at most n, in increasing order
RECURSIVE LiveSeq(_, _)
LiveSeq(n, live) ==
  IF n = 0 THEN <<>>
  ELSE IF n \in live THEN Append(LiveSeq(n - 1, live), n)
  ELSE LiveSeq(n - 1, live)

Collect(h, roots) ==
  LET live == ConstantNodes \cup ReachAll(h, roots)
      old == LiveSeq(Len(h), live)
      ren(a) == CHOOSE i \in 1..Len(old) : old[i] = a
      renVal(v) == IF v.t = "ref" THEN Ref(ren(v.a)) ELSE v
  IN  [h |-> [i \in 1..Len(old) |->
                [kind |-> h[old[i]].kind,
                 f |-> [k \in DOMAIN h[old[i]].f |-> renVal(h[old[i]].f[k])]]],
       roots |-> [i \in 1..Len(roots) |-> renVal(roots[i])]]

(***************************************************************************)
(* The object literals the library and its callers write.                  *)
(***************************************************************************)
\* the request-parameter literals of the model's callers: [kind, x]
Lit(kind, x) == [kind |-> kind, x |-> x]

\* {input: {query: queryText}}
QueryParams(h, queryText) ==
  LET i == Alloc(h, Node("object", "query" :> queryText))
  IN  Alloc(i.h, Node("object", "input" :> i.v))

\* {deviceProperties: {locale}}
LocaleParams(h, locale) ==
  LET d == Alloc(h, Node("object", "locale" :> locale))
  IN  Alloc(d.h, Node("object", "deviceProperties" :> d.v))

\* {deviceProperties: {surface}}
SurfaceParams(h, surface) ==
  LET d == Alloc(h, Node("object", "surface" :> surface))
  IN  Alloc(d.h, Node("object", "deviceProperties" :> d.v))

\* {input: {query}, conversationToken: token}
QueryTokenParams(h, queryText, token) ==
  LET q == QueryParams(h, queryText)
  IN  [h |-> SetField(q.h, q.v, TOKEN_FIELD_NAME, token), v |-> q.v]

USER_TOKEN == Str("userToken")

Literal(h, lit) ==
  CASE lit.kind = "empty" -> Alloc(h, EmptyObject)
    [] lit.kind = "locale" -> LocaleParams(h, Str(lit.x))
    [] lit.kind = "surface" -> SurfaceParams(h, Str(lit.x))
    [] lit.kind = "query" -> QueryParams(h, Str(lit.x))
    [] lit.kind = "queryToken" -> QueryTokenParams(h, Str(lit.x), USER_TOKEN)

(***************************************************************************)
(* Service responses (ISendInteractionResponse).                           *)
(***************************************************************************)
\* An execution event; endConversation tells whether it carries the marker.
ContinuingEvent == [endConversation |-> FALSE]
EndingEvent == [endConversation |-> TRUE]

ServiceTokens == {Str("token1"), Str("token2")}

\* hasOutput/hasDiagnostics: the section exists; hasEvents: diagnostics has an
\* actionsBuilderEvents member, events
Response(output, diagnostics, hasEvents, events, token) ==
  [hasOutput |-> output, hasDiagnostics |-> diagnostics,
   hasEvents |-> hasEvents, events |-> events, conversationToken |-> token]

ContinuingResponse(token) ==
  Response(TRUE, TRUE, TRUE, <<ContinuingEvent>>, token)

EndingResponse(token) ==
  Response(TRUE, TRUE, TRUE, <<ContinuingEvent, EndingEvent>>, token)

ValidResponses ==
  {ContinuingResponse(Str("token1")),
   ContinuingResponse(Str("token2")),
   EndingResponse(Str("token2")),
   \* diagnostics without an actionsBuilderEvents member
   Response(TRUE, TRUE, FALSE, <<>>, Str("token1"))}

InvalidResponses ==
  {\* no output section
   Response(FALSE, TRUE, TRUE, <<ContinuingEvent>>, Str("token2")),
   \* no diagnostics section
   Response(TRUE, FALSE, FALSE, <<>>, Str("token1"))}

Responses == ValidResponses \cup InvalidResponses

(***************************************************************************)
(* ActionsOnGoogleTestManager                                              *)
(***************************************************************************)
\* number of operations a run calls
MaxSteps == 3

\* interactionData.project = `projects/${this.projectId}`
PROJECT == Str("projects/PROJECT_ID")

\* checkedResponse!.diagnostics?.actionsBuilderEvents?.slice(-1)[0]
\* (<<>> is undefined)
getLatestActionsBuilderEvent(response) ==
  IF response.hasEvents /\ Len(response.events) > 0
  THEN <<response.events[Len(response.events)]>>
  ELSE <<>>

\* getIsConversationEnded applied to a response that has a diagnostics section
\* (without one the 'in' operator raises a TypeError, see the callers).
getIsConversationEnded(response) ==
  IF ~response.hasEvents THEN TRUE
  ELSE LET actionsBuilderEvent == getLatestActionsBuilderEvent(response)
       IN  FALSE

\* const checkedResponse = response || this.latestResponse
checkedResponse(response) ==
  IF response # <<>> THEN response ELSE latestResponse

\* validateSendInteractionResponse passes
validResponse(response) == response.hasDiagnostics /\ response.hasOutput

\* i18n.setLocale(locale) of the configured i18n object: a fallback locale
\* selects the locale it falls back to.
setLocale(locale) ==
  IF locale \in SUPPORTED_LOCALES THEN locale ELSE FALLBACK_LOCALES[locale]

\* the check of updateCurrentLocale
isKnownLocale(locale) ==
  locale \in SUPPORTED_LOCALES \cup DOMAIN FALLBACK_LOCALES

\* i18n.__('cancel') in the current locale
getStopQuery ==
  CASE currentLocale = "en-US" -> Str("cancel")
    [] currentLocale = "fr-FR" -> Str("annuler")
    [] currentLocale = "de-DE" -> Str("abbrechen")
    [] OTHER -> Str("cancel")

\* ---- bookkeeping shared by the operations ----
Called(op, result, sent) ==
  /\ steps < MaxSteps
  /\ pc = "idle"
  /\ lastOp' = op
  /\ outcome' = result
  /\ issued' = sent
  /\ prevResponse' = latestResponse
  /\ steps' = steps + 1

\* the new heap and the manager's and caller's references after collection
Store(h, suite, test, request, params) ==
  \E c \in {Collect(h, <<suite, test, request, params,
                         other.suiteInteractionDefaults,
                         other.testInteractionDefaults>>)} :
      /\ heap' = c.h
      /\ suiteInteractionDefaults' = c.roots[1]
      /\ testInteractionDefaults' = c.roots[2]
      /\ sentRequest' = c.roots[3]
      /\ callParams' = c.roots[4]
      /\ other' = [other EXCEPT !.suiteInteractionDefaults = c.roots[5],
                                !.testInteractionDefaults = c.roots[6]]

\* ---- construction ----
ConstructorParams == {Lit("empty", ""), Lit("surface", "SMART_DISPLAY")}

Init ==
  /\ \E lit \in ConstructorParams :
       LET p == Literal(DefaultHeap, lit)
           \* this.updateSuiteInteractionDefaults(interactionParams)
           s == getDeepMerge(p.h, DEFAULT_INTERACTION_SETTING, p.v)
           \* this.cleanUpAfterTest()
           t == Alloc(s.h, EmptyObject)
           c == Collect(t.h, <<s.v, t.v>>)
       IN  /\ heap = c.h
           /\ suiteInteractionDefaults = c.roots[1]
           /\ testInteractionDefaults = c.roots[2]
  /\ latestResponse = <<>>
  /\ lastUserQuery = NULL
  /\ currentLocale = DEFAULT_LOCALE
  /\ pc = "idle"
  /\ sentRequest = UNDEFINED
  /\ callParams = UNDEFINED
  /\ lastOp = "constructor"
  /\ outcome = "ok"
  /\ issued = FALSE
  /\ prevResponse = <<>>
  /\ checked = <<>>
  /\ answered = <<>>
  /\ answeredQuery = <<>>
  /\ lastReturned = <<>>
  /\ steps = 0
  /\ mBase = UNDEFINED
  /\ mTarget = UNDEFINED
  /\ mResult = UNDEFINED
  /\ mOp = "none"
  /\ mCalls = 0
  /\ returned = <<>>
  /\ errorInfo = NoError
  /\ callArgs = <<>>
  /\ reads = 0
  /\ DecoderIdle
  /\ MatchIdle
  /\ OneManager

\* ---- cleanUpAfterTest ----
\* A clean-up that forgets to reset the cached response.
CleanUpAfterTestKeepsResponse ==
  /\ Called("cleanUpAfterTest", "ok", FALSE)
  /\ lastUserQuery' = NULL
  /\ LET t == Alloc(heap, EmptyObject)
     IN  Store(t.h, suiteInteractionDefaults, t.v, UNDEFINED, UNDEFINED)
  /\ answered' = <<>>
  /\ answeredQuery' = <<>>
  /\ lastReturned' = <<>>
  /\ NothingRead
  /\ UNCHANGED <<latestResponse, currentLocale, pc, mergeVars, extraVars>>

\* A clean-up that leaves the test-level defaults as they are.
CleanUpAfterTestKeepsTestDefaults ==
  /\ Called("cleanUpAfterTest", "ok", FALSE)
  /\ lastUserQuery' = NULL
  /\ latestResponse' = <<>>
  /\ Store(heap, suiteInteractionDefaults, testInteractionDefaults,
           UNDEFINED, UNDEFINED)
  /\ answered' = <<>>
  /\ answeredQuery' = <<>>
  /\ lastReturned' = <<>>
  /\ NothingRead
  /\ UNCHANGED <<currentLocale, pc, mergeVars, extraVars>>

CleanUpAfterTest ==
  /\ Called("cleanUpAfterTest", "ok", FALSE)
  /\ lastUserQuery' = NULL
  /\ latestResponse' = <<>>
  /\ LET t == Alloc(heap, EmptyObject)
     IN  Store(t.h, suiteInteractionDefaults, t.v, UNDEFINED, UNDEFINED)
  /\ answered' = <<>>
  /\ answeredQuery' = <<>>
  /\ lastReturned' = <<>>
  /\ NothingRead
  /\ UNCHANGED <<currentLocale, pc, mergeVars, extraVars>>

\* ---- configuration ----
SetParams == {Lit("empty", ""), Lit("queryToken", "hello")}
UpdateParams == {Lit("queryToken", "hello")}

LocaleArgs == {"fr-FR", "xx-XX"}
SurfaceArgs == {"SMART_DISPLAY"}

ConfigFrame ==
  /\ NothingRead
  /\ UNCHANGED <<latestResponse, lastUserQuery, pc, answered, answeredQuery, lastReturned,
                 mergeVars, extraVars>>

SetSuiteInteractionDefaults(lit) ==
  /\ Called("setSuiteInteractionDefaults", "ok", FALSE)
  /\ LET p == Literal(heap, lit)
     IN  Store(p.h, p.v, testInteractionDefaults, UNDEFINED, UNDEFINED)
  /\ UNCHANGED currentLocale
  /\ ConfigFrame

\* this.suiteInteractionDefaults = getDeepMerge(this.suiteInteractionDefaults, p)
updateSuiteInteractionDefaults(h, params) ==
  getDeepMerge(h, suiteInteractionDefaults, params)

\* this.testInteractionDefaults = getDeepMerge(this.testInteractionDefaults, p)
updateTestInteractionDefaults(h, params) ==
  getDeepMerge(h, testInteractionDefaults, params)

UpdateSuiteInteractionDefaults(lit) ==
  /\ Called("updateSuiteInteractionDefaults", "ok", FALSE)
  /\ LET p == Literal(heap, lit)
         s == updateSuiteInteractionDefaults(p.h, p.v)
     IN  Store(s.h, s.v, testInteractionDefaults, UNDEFINED, UNDEFINED)
  /\ UNCHANGED currentLocale
  /\ ConfigFrame

SetTestInteractionDefaults(lit) ==
  /\ Called("setTestInteractionDefaults", "ok", FALSE)
  /\ LET p == Literal(heap, lit)
     IN  Store(p.h, suiteInteractionDefaults, p.v, UNDEFINED, UNDEFINED)
  /\ UNCHANGED currentLocale
  /\ ConfigFrame

UpdateTestInteractionDefaults(lit) ==
  /\ Called("updateTestInteractionDefaults", "ok", FALSE)
  /\ LET p == Literal(heap, lit)
         t == updateTestInteractionDefaults(p.h, p.v)
     IN  Store(t.h, suiteInteractionDefaults, t.v, UNDEFINED, UNDEFINED)
  /\ UNCHANGED currentLocale
  /\ ConfigFrame

\* updateCurrentLocale: throws for an unknown locale, else i18n.setLocale
updateCurrentLocale(locale) ==
  IF isKnownLocale(locale) THEN setLocale(locale) ELSE currentLocale

SetSuiteLocale(locale) ==
  /\ Called("setSuiteLocale",
            IF isKnownLocale(locale) THEN "ok" ELSE "unsupported_locale", FALSE)
  /\ LET p == LocaleParams(heap, Str(locale))
         s == updateSuiteInteractionDefaults(p.h, p.v)
     IN  Store(s.h, s.v, testInteractionDefaults, UNDEFINED, UNDEFINED)
  /\ currentLocale' = updateCurrentLocale(locale)
  /\ ConfigFrame

SetSuiteSurface(surface) ==
  /\ Called("setSuiteSurface", "ok", FALSE)
  /\ LET p == SurfaceParams(heap, Str(surface))
         s == updateSuiteInteractionDefaults(p.h, p.v)
     IN  Store(s.h, s.v, testInteractionDefaults, UNDEFINED, UNDEFINED)
  /\ UNCHANGED currentLocale
  /\ ConfigFrame

SetTestLocale(locale) ==
  /\ Called("setTestLocale",
            IF isKnownLocale(locale) THEN "ok" ELSE "unsupported_locale", FALSE)
  /\ LET p == LocaleParams(heap, Str(locale))
         t == updateTestInteractionDefaults(p.h, p.v)
     IN  Store(t.h, suiteInteractionDefaults, t.v, UNDEFINED, UNDEFINED)
  /\ currentLocale' = updateCurrentLocale(locale)
  /\ ConfigFrame

SetTestSurface(surface) ==
  /\ Called("setTestSurface", "ok", FALSE)
  /\ LET p == SurfaceParams(heap, Str(surface))
         t == updateTestInteractionDefaults(p.h, p.v)
     IN  Store(t.h, suiteInteractionDefaults, t.v, UNDEFINED, UNDEFINED)
  /\ UNCHANGED currentLocale
  /\ ConfigFrame

\* A merge with the layers swapped, which lets the suite layer win.
getMergedDefaultsSuiteWins(h) ==
  getDeepMerge(h, testInteractionDefaults, suiteInteractionDefaults)

\* getDeepMerge(this.suiteInteractionDefaults, this.testInteractionDefaults)
getTestInteractionMergedDefaults(h) ==
  getDeepMerge(h, suiteInteractionDefaults, testInteractionDefaults)

\* ---- sendInteraction / sendQuery / sendStop ----
SendParams == {Lit("queryToken", "bye"), Lit("surface", "PHONE")}
ConversationParams == {Lit("queryToken", "bye")}

Queries == {"hello"}

\* interactionMergeParams[TOKEN_FIELD_NAME] = this.latestResponse[TOKEN_FIELD_NAME]
\* when a response is cached
setConversationToken(h, interactionMergeParams, cached) ==
  IF cached # <<>>
  THEN SetField(h, interactionMergeParams, TOKEN_FIELD_NAME,
                cached[1].conversationToken)
  ELSE h

\* The synchronous part of sendInteraction, up to the await: op is the
\* operation the caller invoked and p the allocated interactionParams.
sendInteraction(op, p) ==
  LET d == getTestInteractionMergedDefaults(p.h)
      m == getDeepMerge(d.h, d.v, p.v)
      interactionMergeParams == m.v
      h1 == setConversationToken(m.h, interactionMergeParams, latestResponse)
      input == Get(h1, interactionMergeParams, "input")
      \* ActionsApiHelper.sendInteraction sets the project
      h2 == SetField(h1, interactionMergeParams, "project", PROJECT)
      raised ==
        CASE latestResponse # <<>> /\ ~latestResponse[1].hasDiagnostics
               -> "type_error"
          [] latestResponse # <<>> /\ latestResponse[1].hasDiagnostics
               /\ getIsConversationEnded(latestResponse[1])
               -> "conversation_ended"
          [] OTHER -> IF input.t # "ref" THEN "type_error" ELSE "none"
  IN  /\ steps < MaxSteps
      /\ pc = "idle"
      /\ \/ /\ raised # "none"
            /\ Called(op, raised, FALSE)
            /\ Store(heap, suiteInteractionDefaults, testInteractionDefaults,
                     UNDEFINED, UNDEFINED)
            /\ NothingRead
            /\ UNCHANGED <<latestResponse, lastUserQuery, currentLocale, pc,
                           answered, answeredQuery, lastReturned, mergeVars, extraVars>>
         \/ /\ raised = "none"
            /\ Called(op, "pending", TRUE)
            /\ lastUserQuery' = Get(h2, input, "query")
            /\ Store(h2, suiteInteractionDefaults, testInteractionDefaults,
                     interactionMergeParams, p.v)
            /\ pc' = "awaiting"
            /\ NothingRead
            /\ UNCHANGED <<latestResponse, currentLocale, answered, answeredQuery,
                           lastReturned, mergeVars, extraVars>>

SendInteraction(lit) == sendInteraction("sendInteraction", Literal(heap, lit))

SendQuery(queryText) ==
  sendInteraction("sendQuery", QueryParams(heap, Str(queryText)))

SendStop == sendInteraction("sendStop", QueryParams(heap, getStopQuery))

\* a failing call that also drops the cached response
ApiCallFailsClearsResponse ==
  /\ pc = "awaiting"
  /\ pc' = "idle"
  /\ outcome' = "api_call_failed"
  /\ latestResponse' = <<>>
  /\ UNCHANGED <<heap, other, suiteInteractionDefaults, testInteractionDefaults,
                 lastUserQuery, currentLocale, sentRequest,
                 callParams, lastOp, issued, prevResponse, checked, returned, errorInfo, callArgs, reads, answered, answeredQuery,
                 lastReturned, steps, mergeVars, extraVars>>

\* the awaited call fails: the helper rethrows with its prefix
ApiCallFails ==
  /\ pc = "awaiting"
  /\ pc' = "idle"
  /\ outcome' = "api_call_failed"
  /\ UNCHANGED <<heap, other, suiteInteractionDefaults, testInteractionDefaults,
                 latestResponse, lastUserQuery, currentLocale, sentRequest,
                 callParams, lastOp, issued, prevResponse, checked, returned, errorInfo, callArgs, reads, answered, answeredQuery,
                 lastReturned, steps, mergeVars, extraVars>>

\* the awaited call returns a response: it is stored, then validated
ApiCallReturns(response) ==
  /\ pc = "awaiting"
  /\ pc' = "idle"
  /\ latestResponse' = <<response>>
  /\ outcome' = IF validResponse(response) THEN "ok" ELSE "invalid_response"
  /\ answered' = <<response>>
  /\ answeredQuery' = <<Get(heap, Get(heap, sentRequest, "input"), "query")>>
  /\ lastReturned' = IF validResponse(response) THEN <<response>> ELSE lastReturned
  /\ UNCHANGED <<heap, other, suiteInteractionDefaults, testInteractionDefaults,
                 lastUserQuery, currentLocale, sentRequest, callParams, lastOp,
                 issued, prevResponse, checked, returned, errorInfo, callArgs, reads, steps, mergeVars, extraVars>>

\* ---- assertions on the end of the conversation ----
ExplicitResponses ==
  {<<Response(TRUE, TRUE, TRUE, <<EndingEvent, ContinuingEvent>>, Str("token1"))>>,
   <<Response(TRUE, TRUE, TRUE, <<EndingEvent>>, Str("token2"))>>}

ResponseArgs == {<<>>} \cup ExplicitResponses

\* the common part of assertConversationEnded / assertConversationNotEnded:
\* expected is the value getIsConversationEnded has to return
assertConversation(op, response, expected) ==
  LET c == checkedResponse(response)
  IN  /\ Called(op,
                IF c = <<>> THEN "before_first_query"
                ELSE IF ~c[1].hasDiagnostics THEN "type_error"
                ELSE IF getIsConversationEnded(c[1]) = expected THEN "ok"
                ELSE "assertion_failed",
                FALSE)
      /\ checked' = c
      /\ returned' = <<>>
      /\ callArgs' = <<response>>
      /\ reads' = reads
      /\ errorInfo' =
           IF c = <<>> THEN Error("before_first_query", <<>>, <<>>, <<>>)
           ELSE IF ~c[1].hasDiagnostics THEN Error("type_error", <<>>, <<>>, <<>>)
           ELSE IF getIsConversationEnded(c[1]) = expected THEN NoError
           \* assert.isTrue / assert.isFalse
           ELSE Error("assertion_failed", <<>>, <<~expected>>, <<expected>>)
      /\ Store(heap, suiteInteractionDefaults, testInteractionDefaults,
               UNDEFINED, UNDEFINED)
      /\ UNCHANGED <<latestResponse, lastUserQuery, currentLocale, pc,
                     answered, answeredQuery, lastReturned, mergeVars, extraVars>>

AssertConversationEnded(response) ==
  assertConversation("assertConversationEnded", response, TRUE)

AssertConversationNotEnded(response) ==
  assertConversation("assertConversationNotEnded", response, FALSE)

\* The conversation: sends, the service's answers, the end-of-conversation
\* assertions and the clean-up between test cases.
Next ==
  \/ CleanUpAfterTest
  \/ \E surface \in SurfaceArgs : SetTestSurface(surface)
  \/ \E lit \in ConversationParams : SendInteraction(lit)
  \/ \E queryText \in Queries : SendQuery(queryText)
  \/ SendStop
  \/ ApiCallFails
  \/ \E response \in Responses : ApiCallReturns(response)
  \/ \E response \in ResponseArgs : AssertConversationEnded(response)
  \/ \E response \in ResponseArgs : AssertConversationNotEnded(response)

Spec == Init /\ [][Next]_vars

\* The configuration layers: every configuration operation, the clean-up and
\* the sends, answered by a service that continues the conversation.
ConfigNext ==
  \/ CleanUpAfterTest
  \/ \E lit \in SetParams : SetSuiteInteractionDefaults(lit)
  \/ \E lit \in UpdateParams : UpdateSuiteInteractionDefaults(lit)
  \/ \E lit \in SetParams : SetTestInteractionDefaults(lit)
  \/ \E lit \in UpdateParams : UpdateTestInteractionDefaults(lit)
  \/ \E locale \in LocaleArgs : SetSuiteLocale(locale)
  \/ \E surface \in SurfaceArgs : SetSuiteSurface(surface)
  \/ \E locale \in LocaleArgs : SetTestLocale(locale)
  \/ \E surface \in SurfaceArgs : SetTestSurface(surface)
  \/ \E lit \in SendParams : SendInteraction(lit)
  \/ \E queryText \in Queries : SendQuery(queryText)
  \/ SendStop
  \/ ApiCallReturns(ContinuingResponse(Str("token1")))

ConfigSpec == Init /\ [][ConfigNext]_vars

(***************************************************************************)
(* Native values and typed values (protos.google.protobuf.IValue).         *)
(***************************************************************************)
\* A native value: a primitive (t is its type, s its text), an array (items)
\* or a keyed map (fields, a sequence of entries in insertion order).
Prim(t, s) == [t |-> t, s |-> s, items |-> <<>>, fields |-> <<>>]
Arr(items) == [t |-> "array", s |-> "", items |-> items, fields |-> <<>>]
Obj(fields) == [t |-> "object", s |-> "", items |-> <<>>, fields |-> fields]
Entry(k, v) == [k |-> k, v |-> v]

\* deep equality of native values; the order of a map's keys is irrelevant
RECURSIVE DeepEqualNative(_, _)
DeepEqualNative(a, b) ==
  /\ a.t = b.t
  /\ a.s = b.s
  /\ Len(a.items) = Len(b.items)
  /\ \A i \in 1..Len(a.items) : DeepEqualNative(a.items[i], b.items[i])
  /\ Len(a.fields) = Len(b.fields)
  /\ \A i \in 1..Len(a.fields) : \E j \in 1..Len(b.fields) :
       /\ a.fields[i].k = b.fields[j].k
       /\ DeepEqualNative(a.fields[i].v, b.fields[j].v)

NULL_NATIVE == Prim("null", "")
UNDEFINED_NATIVE == Prim("undefined", "")

\* the two forms of the enum google.protobuf.NullValue.NULL_VALUE
NULL_VALUE_NAME == Prim("string", "NULL_VALUE")
NULL_VALUE_NUMBER == Prim("number", "0")

\* the members of an IValue, in the order getValueFromField tests them
Discriminants ==
  <<"boolValue", "numberValue", "stringValue", "nullValue", "listValue",
    "structValue">>

\* IListValue: values is optional.  IStruct: fields is optional.
ListValue(hasValues, values) == [hasValues |-> hasValues, values |-> values]
Struct(hasFields, fields) == [hasFields |-> hasFields, fields |-> fields]

NoList == ListValue(FALSE, <<>>)
NoStruct == Struct(FALSE, <<>>)

\* An IValue: has is the set of members the object has ('x' in value), the
\* other fields are their values.
NoValue ==
  [has |-> {}, boolValue |-> UNDEFINED_NATIVE, numberValue |-> UNDEFINED_NATIVE,
   stringValue |-> UNDEFINED_NATIVE, nullValue |-> UNDEFINED_NATIVE,
   listValue |-> NoList, structValue |-> NoStruct]

BoolValue(b) == [NoValue EXCEPT !.has = {"boolValue"}, !.boolValue = Prim("boolean", b)]
NumberValue(n) == [NoValue EXCEPT !.has = {"numberValue"}, !.numberValue = Prim("number", n)]
StringValue(x) == [NoValue EXCEPT !.has = {"stringValue"}, !.stringValue = Prim("string", x)]
NullValue(e) == [NoValue EXCEPT !.has = {"nullValue"}, !.nullValue = e]
ListOf(l) == [NoValue EXCEPT !.has = {"listValue"}, !.listValue = l]
StructOf(st) == [NoValue EXCEPT !.has = {"structValue"}, !.structValue = st]

\* an IValue carrying the members of a and those of b
Both(a, b) ==
  [has |-> a.has \cup b.has,
   boolValue |-> IF "boolValue" \in a.has THEN a.boolValue ELSE b.boolValue,
   numberValue |-> IF "numberValue" \in a.has THEN a.numberValue ELSE b.numberValue,
   stringValue |-> IF "stringValue" \in a.has THEN a.stringValue ELSE b.stringValue,
   nullValue |-> IF "nullValue" \in a.has THEN a.nullValue ELSE b.nullValue,
   listValue |-> IF "listValue" \in a.has THEN a.listValue ELSE b.listValue,
   structValue |-> IF "structValue" \in a.has THEN a.structValue ELSE b.structValue]

\* the outcome of a call: a returned value, or a raised TypeError
Returns(v) == [raised |-> FALSE, v |-> v]
Raises == [raised |-> TRUE, v |-> UNDEFINED_NATIVE]

RECURSIVE getValueFromField(_)
RECURSIVE decodeValues(_)
RECURSIVE decodeEntries(_)

\* A loop that puts each decoded value in front of the list (unshift).
decodeValuesReversed(values) ==
  IF values = <<>> THEN Returns(<<>>)
  ELSE LET first == getValueFromField(Head(values))
           rest == decodeValues(Tail(values))
       IN  IF first.raised \/ rest.raised THEN Raises
           ELSE Returns(rest.v \o <<first.v>>)

\* listValue.values?.forEach(value => list.push(getValueFromField(value)))
decodeValues(values) ==
  IF values = <<>> THEN Returns(<<>>)
  ELSE LET first == getValueFromField(Head(values))
           rest == decodeValues(Tail(values))
       IN  IF first.raised \/ rest.raised THEN Raises
           ELSE Returns(<<first.v>> \o rest.v)

\* entries.forEach(([key, value]) => map[key] = getValueFromField(value))
decodeEntries(entries) ==
  IF entries = <<>> THEN Returns(<<>>)
  ELSE LET first == getValueFromField(Head(entries).v)
           rest == decodeEntries(Tail(entries))
       IN  IF first.raised \/ rest.raised THEN Raises
           ELSE Returns(<<Entry(Head(entries).k, first.v)>> \o rest.v)

\* A decoder that tests stringValue before boolValue and numberValue.
getValueFromFieldStringFirst(resolvedField) ==
  IF "stringValue" \in resolvedField.has THEN Returns(resolvedField.stringValue)
  ELSE IF "boolValue" \in resolvedField.has THEN Returns(resolvedField.boolValue)
  ELSE IF "numberValue" \in resolvedField.has THEN Returns(resolvedField.numberValue)
  ELSE IF "nullValue" \in resolvedField.has THEN Returns(resolvedField.nullValue)
  ELSE IF "listValue" \in resolvedField.has
  THEN LET list == IF resolvedField.listValue.hasValues
                   THEN decodeValues(resolvedField.listValue.values)
                   ELSE Returns(<<>>)
       IN  IF list.raised THEN Raises ELSE Returns(Arr(list.v))
  ELSE IF "structValue" \in resolvedField.has
  THEN IF ~resolvedField.structValue.hasFields THEN Raises
       ELSE LET map == decodeEntries(resolvedField.structValue.fields)
            IN  IF map.raised THEN Raises ELSE Returns(Obj(map.v))
  ELSE Returns(NULL_NATIVE)

getValueFromField(resolvedField) ==
  IF "boolValue" \in resolvedField.has THEN Returns(resolvedField.boolValue)
  ELSE IF "numberValue" \in resolvedField.has THEN Returns(resolvedField.numberValue)
  ELSE IF "stringValue" \in resolvedField.has THEN Returns(resolvedField.stringValue)
  ELSE IF "nullValue" \in resolvedField.has THEN Returns(resolvedField.nullValue)
  ELSE IF "listValue" \in resolvedField.has
  THEN LET listValue == resolvedField.listValue
           list == IF listValue.hasValues THEN decodeValues(listValue.values)
                   ELSE Returns(<<>>)
       IN  IF list.raised THEN Raises ELSE Returns(Arr(list.v))
  ELSE IF "structValue" \in resolvedField.has
  THEN LET structValue == resolvedField.structValue
       IN  \* Object.entries(undefined) raises a TypeError
           IF ~structValue.hasFields THEN Raises
           ELSE LET map == decodeEntries(structValue.fields)
                IN  IF map.raised THEN Raises ELSE Returns(Obj(map.v))
  ELSE Returns(NULL_NATIVE)

\* The typed value the service sends for a native value: nullEnum is the form
\* of the NullValue enum it uses.
RECURSIVE encode(_, _)
RECURSIVE encodeItems(_, _)
RECURSIVE encodeFields(_, _)
encodeItems(items, nullEnum) ==
  IF items = <<>> THEN <<>>
  ELSE <<encode(Head(items), nullEnum)>> \o encodeItems(Tail(items), nullEnum)

encodeFields(fields, nullEnum) ==
  IF fields = <<>> THEN <<>>
  ELSE <<Entry(Head(fields).k, encode(Head(fields).v, nullEnum))>>
         \o encodeFields(Tail(fields), nullEnum)

encode(v, nullEnum) ==
  CASE v.t = "boolean" -> BoolValue(v.s)
    [] v.t = "number" -> NumberValue(v.s)
    [] v.t = "string" -> StringValue(v.s)
    [] v.t = "null" -> NullValue(nullEnum)
    [] v.t = "array" -> ListOf(ListValue(TRUE, encodeItems(v.items, nullEnum)))
    [] v.t = "object" -> StructOf(Struct(TRUE, encodeFields(v.fields, nullEnum)))

(***************************************************************************)
(* getValueFromField applied to bounded inputs.                            *)
(***************************************************************************)
\* length of the lists and structs decoded
MaxValues == 2

\* typed values without nested typed values
ScalarValues ==
  {BoolValue("true"), NumberValue("1"), StringValue("cats"),
   StringValue("dogs"), NullValue(NULL_VALUE_NAME), NullValue(NULL_VALUE_NUMBER)}

\* typed values that are not one populated case: no member, several members,
\* a list without values, a struct without fields
IrregularValues ==
  {NoValue,
   Both(BoolValue("false"), NumberValue("1")),
   Both(NumberValue("0"), StringValue("cats")),
   Both(StringValue(""), NullValue(NULL_VALUE_NAME)),
   Both(NullValue(NULL_VALUE_NAME), ListOf(ListValue(TRUE, <<StringValue("cats")>>))),
   Both(ListOf(ListValue(TRUE, <<StringValue("cats")>>)),
        StructOf(Struct(TRUE, <<Entry("title", StringValue("dogs"))>>))),
   Both(BoolValue("true"),
        StructOf(Struct(TRUE, <<Entry("title", StringValue("dogs"))>>))),
   ListOf(NoList),
   StructOf(NoStruct)}

StructKeys == <<"title", "category", "number">>

\* sequences of at most n elements of S
SeqsUpTo(S, n) == UNION {[1..k -> S] : k \in 0..n}

\* the structs with the first k keys of StructKeys and members from S
StructsOver(S, n) ==
  UNION {{Struct(TRUE, [i \in 1..k |-> Entry(StructKeys[i], vs[i])]) :
            vs \in [1..k -> S]} : k \in 0..n}

FlatValues ==
  {ListOf(ListValue(TRUE, vs)) : vs \in SeqsUpTo(ScalarValues, MaxValues)}
    \cup {StructOf(st) : st \in StructsOver(ScalarValues, MaxValues)}

\* members of the nested typed values
NestedMembers ==
  {StringValue("cats"), NoValue, StructOf(NoStruct), ListOf(NoList),
   ListOf(ListValue(TRUE, <<StringValue("cats"), StringValue("dogs")>>)),
   StructOf(Struct(TRUE, <<Entry("title", NumberValue("1"))>>)),
   Both(NumberValue("0"), StringValue("cats"))}

NestedValues ==
  {ListOf(ListValue(TRUE, vs)) : vs \in SeqsUpTo(NestedMembers, MaxValues)}
    \cup {StructOf(st) : st \in StructsOver(NestedMembers, MaxValues)}

TypedValues == ScalarValues \cup IrregularValues \cup FlatValues \cup NestedValues

\* the native values encoded: primitives, lists of primitives, a struct
\* inside a list and a list inside a struct
NativeScalars ==
  {Prim("boolean", "true"), Prim("boolean", "false"), Prim("number", "1"),
   Prim("string", "cats"), Prim("string", ""), NULL_NATIVE}

NativeValues ==
  NativeScalars
    \cup {Arr(vs) : vs \in SeqsUpTo(NativeScalars, MaxValues)}
    \cup {Arr(<<Obj(<<Entry("title", Prim("string", "cats"))>>)>>),
          Obj(<<Entry("category", Arr(<<Prim("string", "cats"), Prim("number", "1")>>))>>),
          Obj(<<>>)}

DecoderInit ==
  /\ dField \in {<<v>> : v \in TypedValues}
  /\ dNative \in {<<>>}
  /\ dResult = <<>>
  /\ dOp = "none"
  /\ heap = DefaultHeap
  /\ suiteInteractionDefaults = UNDEFINED
  /\ testInteractionDefaults = UNDEFINED
  /\ latestResponse = <<>>
  /\ lastUserQuery = NULL
  /\ currentLocale = DEFAULT_LOCALE
  /\ pc = "idle"
  /\ sentRequest = UNDEFINED
  /\ callParams = UNDEFINED
  /\ lastOp = "none"
  /\ outcome = "none"
  /\ issued = FALSE
  /\ prevResponse = <<>>
  /\ checked = <<>>
  /\ answered = <<>>
  /\ answeredQuery = <<>>
  /\ lastReturned = <<>>
  /\ steps = 0
  /\ mBase = UNDEFINED
  /\ mTarget = UNDEFINED
  /\ mResult = UNDEFINED
  /\ mOp = "none"
  /\ mCalls = 0
  /\ returned = <<>>
  /\ errorInfo = NoError
  /\ callArgs = <<>>
  /\ reads = 0
  /\ MatchIdle
  /\ OneManager

\* result = getValueFromField(field)
Decode ==
  /\ dOp = "none"
  /\ dResult' = <<getValueFromField(dField[1])>>
  /\ dOp' = "decode"
  /\ UNCHANGED <<dField, dNative, heap, managerVars, mergeVars, readVars,
                 matchVars, concurrentVars>>

\* the service encodes a native value and the decoder reads it back
EncodeAndDecode ==
  /\ dOp = "none"
  /\ \E v \in NativeValues, nullEnum \in {NULL_VALUE_NAME, NULL_VALUE_NUMBER} :
       /\ dNative' = <<v>>
       /\ dField' = <<encode(v, nullEnum)>>
       /\ dResult' = <<getValueFromField(encode(v, nullEnum))>>
  /\ dOp' = "roundTrip"
  /\ UNCHANGED <<heap, managerVars, mergeVars, readVars, matchVars,
                 concurrentVars>>

DecoderNext == Decode \/ EncodeAndDecode

DecoderSpec == DecoderInit /\ [][DecoderNext]_vars

(***************************************************************************)
(* Responses with content, and the getters and assertions that read them.  *)
(* A text is a sequence of characters; an optional member is <<>> when it  *)
(* is not there and <<v>> when it is; a content block is the set of its    *)
(* <<key, value>> pairs.                                                   *)
(***************************************************************************)
UNCHANGED_SCENE == "_UNCHANGED_"

\* response.output
Output(speech, text, actionsBuilderPrompt, canvas) ==
  [speech |-> speech, text |-> text,
   actionsBuilderPrompt |-> actionsBuilderPrompt, canvas |-> canvas]

\* IPrompt, IContent and ICanvas
Prompt(suggestions, content) == [suggestions |-> suggestions, content |-> content]
Content(kind, block) == [kind |-> kind, block |-> block]
Canvas(url, data) == [url |-> url, data |-> data]

\* IIntentMatch and one of its intentParameters
IntentMatch(intentId, intentParameters) ==
  [intentId |-> intentId, intentParameters |-> intentParameters]
Parameter(name, resolved) == [name |-> name, resolved |-> resolved]

\* IExecutionState
ExecutionState(currentSceneId, sessionStorage, userStorage, householdStorage) ==
  [currentSceneId |-> currentSceneId, sessionStorage |-> sessionStorage,
   userStorage |-> userStorage, householdStorage |-> householdStorage]

\* IExecutionEvent
Event(endConversation, intentMatch, executionState) ==
  [endConversation |-> endConversation, intentMatch |-> intentMatch,
   executionState |-> executionState]

\* ISendInteractionResponse with its content
ContentResponse(output, diagnostics, hasEvents, events, token) ==
  [hasOutput |-> output # <<>>, hasDiagnostics |-> diagnostics,
   hasEvents |-> hasEvents, events |-> events, conversationToken |-> token,
   output |-> output]

\* ---- what a getter or an assertion did ----
\* it returned value (an optional: <<>> is undefined or null)
Returned(c, value) ==
  [outcome |-> "ok", returned |-> <<value>>, error |-> NoError, checked |-> c]

\* an assertion passed
Passed(c) ==
  [outcome |-> "ok", returned |-> <<>>, error |-> NoError, checked |-> c]

\* it raised
Raised(c, error) ==
  [outcome |-> error.kind, returned |-> <<>>, error |-> error, checked |-> c]

\* expect(checkedResponse, `op ${CANNOT_BE_CALLED_BEFORE_FIRST_QUERY_MESSAGE}`)
CannotBeCalledBeforeFirstQuery ==
  Raised(<<>>, Error("before_first_query", <<>>, <<>>, <<>>))

\* a member of undefined is read
TypeError(c) == Raised(c, Error("type_error", <<>>, <<>>, <<>>))

\* a chai assertion on actual and expected failed
AssertionError(c, actual, expected) ==
  Raised(c, Error("assertion_failed", <<>>, actual, expected))

\* this.throwError(errorStr): the message ends with the last user query
throwError(c, actual, expected) ==
  Raised(c, Error("assertion_failed", <<lastUserQuery>>, actual, expected))

\* ---- getters ----
RECURSIVE join(_)
\* speech.join('')
join(texts) == IF texts = <<>> THEN <<>> ELSE Head(texts) \o join(Tail(texts))

getText(response) ==
  LET c == checkedResponse(response)
  IN  IF c = <<>> THEN CannotBeCalledBeforeFirstQuery
      ELSE IF ~c[1].hasOutput THEN TypeError(c)
      ELSE Returned(c, c[1].output[1].text)

getSpeech(response) ==
  LET c == checkedResponse(response)
  IN  IF c = <<>> THEN CannotBeCalledBeforeFirstQuery
      ELSE IF ~c[1].hasOutput THEN TypeError(c)
      ELSE IF c[1].output[1].speech # <<>>
      THEN Returned(c, <<join(c[1].output[1].speech[1])>>)
      ELSE getText(c)

\* the last of the optional values that is there
RECURSIVE lastOf(_)
lastOf(values) ==
  IF values = <<>> THEN <<>>
  ELSE IF values[Len(values)] # <<>> THEN values[Len(values)]
  ELSE lastOf(SubSeq(values, 1, Len(values) - 1))

getIntent(response) ==
  LET c == checkedResponse(response)
      intentIds == [i \in 1..Len(c[1].events) |->
                      IF c[1].events[i].intentMatch # <<>>
                      THEN c[1].events[i].intentMatch[1].intentId ELSE <<>>]
  IN  IF c = <<>> THEN CannotBeCalledBeforeFirstQuery
      ELSE IF ~c[1].hasDiagnostics THEN TypeError(c)
      ELSE LET intentName == IF c[1].hasEvents THEN lastOf(intentIds)
                             ELSE <<>>
           IN  IF intentName = <<>> THEN AssertionError(c, <<>>, <<>>)
               ELSE Returned(c, intentName)

\* the parameter called name of intentParameters, if any
RECURSIVE find(_, _)
find(parameters, name) ==
  IF parameters = <<>> THEN <<>>
  ELSE IF Head(parameters).name = name THEN <<Head(parameters)>>
  ELSE find(Tail(parameters), name)

\* the value getValueFromField yields for a getter: an optional native value
Decoded(c, resolvedField) ==
  LET d == getValueFromField(resolvedField)
  IN  IF d.raised THEN TypeError(c)
      ELSE Returned(c, IF d.v = NULL_NATIVE THEN <<>> ELSE <<d.v>>)

getIntentParameter(parameterName, response) ==
  LET c == checkedResponse(response)
      intentMatches == [i \in 1..Len(c[1].events) |-> c[1].events[i].intentMatch]
  IN  IF c = <<>> THEN CannotBeCalledBeforeFirstQuery
      ELSE IF ~c[1].hasDiagnostics THEN TypeError(c)
      ELSE LET intentMatch == IF c[1].hasEvents THEN lastOf(intentMatches)
                              ELSE <<>>
               parameter == IF intentMatch # <<>> /\ intentMatch[1].intentParameters # <<>>
                            THEN find(intentMatch[1].intentParameters[1], parameterName)
                            ELSE <<>>
           IN  IF parameter # <<>> /\ parameter[1].resolved # <<>>
               THEN Decoded(c, parameter[1].resolved[1])
               ELSE Returned(c, <<>>)

\* this.getLatestActionsBuilderEvent(checkedResponse!)?.executionState
getExecutionState(c) ==
  LET event == getLatestActionsBuilderEvent(c[1])
  IN  IF event = <<>> THEN <<>> ELSE event[1].executionState

getScene(response) ==
  LET c == checkedResponse(response)
  IN  IF c = <<>> THEN CannotBeCalledBeforeFirstQuery
      ELSE LET state == getExecutionState(c)
           IN  IF state # <<>> /\ state[1].currentSceneId \notin {<<>>, <<"">>}
               THEN Returned(c, state[1].currentSceneId)
               ELSE Returned(c, <<UNCHANGED_SCENE>>)

\* A getter that reads the prompt without the check of the response.
getPromptUnchecked(response) ==
  LET c == checkedResponse(response)
  IN  IF c = <<>> \/ ~c[1].hasOutput THEN Returned(c, <<>>)
      ELSE Returned(c, c[1].output[1].actionsBuilderPrompt)

getPrompt(response) ==
  LET c == checkedResponse(response)
  IN  IF c = <<>> THEN CannotBeCalledBeforeFirstQuery
      ELSE IF ~c[1].hasOutput THEN Returned(c, <<>>)
      ELSE Returned(c, c[1].output[1].actionsBuilderPrompt)

getSuggestions(response) ==
  LET c == checkedResponse(response)
  IN  IF c = <<>> THEN CannotBeCalledBeforeFirstQuery
      ELSE LET prompt == getPrompt(response).returned[1]
           IN  Returned(c, IF prompt = <<>> THEN <<>> ELSE prompt[1].suggestions)

getContent(response) ==
  LET p == getPrompt(response)
  IN  IF p.outcome # "ok" THEN p
      ELSE Returned(p.checked,
                    IF p.returned[1] = <<>> THEN <<>> ELSE p.returned[1][1].content)

ContentKinds == {"card", "image", "table", "collection", "list", "media"}

\* getCard, getImage, getTable, getCollection, getList, getMedia:
\* this.getContent(response)?.[kind]
getContentBlock(kind, response) ==
  LET content == getContent(response)
  IN  IF content.outcome # "ok" THEN content
      ELSE Returned(content.checked,
                    IF content.returned[1] # <<>> /\ content.returned[1][1].kind = kind
                    THEN <<content.returned[1][1].block>> ELSE <<>>)

\* getIsConversationEnded with its check of the response
readIsConversationEnded(response) ==
  LET c == checkedResponse(response)
  IN  IF c = <<>> THEN CannotBeCalledBeforeFirstQuery
      ELSE IF ~c[1].hasDiagnostics THEN TypeError(c)
      ELSE Returned(c, <<getIsConversationEnded(c[1])>>)

StorageNames == {"sessionStorage", "userStorage", "householdStorage"}

\* the entry called name of a struct's fields, if any
RECURSIVE field(_, _)
field(fields, name) ==
  IF fields = <<>> THEN <<>>
  ELSE IF Head(fields).k = name THEN <<Head(fields).v>>
  ELSE field(Tail(fields), name)

\* getSessionParam, getUserParam, getHomeParam: storage is the member of the
\* execution state they read
getStorageParam(storage, name, response) ==
  LET c == checkedResponse(response)
  IN  IF c = <<>> THEN CannotBeCalledBeforeFirstQuery
      ELSE LET executionState == getExecutionState(c)
           IN  IF executionState = <<>> \/ executionState[1][storage] = <<>>
               THEN Returned(c, <<>>)
               \* name in executionState[storage].fields, fields undefined
               ELSE IF ~executionState[1][storage][1].hasFields THEN TypeError(c)
               ELSE LET resolvedField == field(executionState[1][storage][1].fields, name)
                    IN  IF resolvedField = <<>> THEN Returned(c, <<>>)
                        ELSE Decoded(c, resolvedField[1])

getCanvasURL(response) ==
  LET c == checkedResponse(response)
  IN  IF c = <<>> THEN CannotBeCalledBeforeFirstQuery
      ELSE IF ~c[1].hasOutput THEN TypeError(c)
      ELSE Returned(c, IF c[1].output[1].canvas = <<>> THEN <<>>
                       ELSE c[1].output[1].canvas[1].url)

getCanvasData(response) ==
  LET c == checkedResponse(response)
  IN  IF c = <<>> THEN CannotBeCalledBeforeFirstQuery
      ELSE IF ~c[1].hasOutput THEN TypeError(c)
      ELSE Returned(c, IF c[1].output[1].canvas = <<>> THEN <<>>
                       ELSE c[1].output[1].canvas[1].data)

\* ---- assertions ----
\* value.includes(expectedItem)
includes(value, expectedItem) ==
  \E i \in 0..(Len(value) - Len(expectedItem)) :
    SubSeq(value, i + 1, i + Len(expectedItem)) = expectedItem

\* the regular expression pattern (literal characters and '.', which stands
\* for any character) matches value from position i on
matchesAt(value, pattern, i) ==
  /\ i + Len(pattern) - 1 <= Len(value)
  /\ \A j \in 1..Len(pattern) :
       pattern[j] = "." \/ pattern[j] = value[i + j - 1]

\* value.match(expectedItem)
match(value, pattern) == \E i \in 1..(Len(value) + 1) : matchesAt(value, pattern, i)

\* value.match('^' + expectedItem + '$')
matchWhole(value, pattern) ==
  Len(value) = Len(pattern) /\ matchesAt(value, pattern, 1)

\* the expected argument of assertSpeech / assertText: a string or an array
ExpectedString(text) == [isArray |-> FALSE, items |-> <<text>>]
ExpectedArray(texts) == [isArray |-> TRUE, items |-> texts]

AssertValueArgs(isExact, isRegexp) == [isExact |-> isExact, isRegexp |-> isRegexp]

\* An item test that ignores isExact outside the regexp mode.
itemMatchIgnoresExact(value, expectedItem, args) ==
  IF args.isRegexp
  THEN IF args.isExact THEN matchWhole(value, expectedItem)
       ELSE match(value, expectedItem)
  ELSE includes(value, expectedItem)

\* the body of the loop of assertValueCommon
itemMatch(value, expectedItem, args) ==
  IF args.isRegexp
  THEN IF args.isExact THEN matchWhole(value, expectedItem)
       ELSE match(value, expectedItem)
  ELSE IF args.isExact THEN value = expectedItem
       ELSE includes(value, expectedItem)

\* A test that wants every expected item to match.
isMatchAll(value, expectedList, args) ==
  \A i \in 1..Len(expectedList) : itemMatch(value, expectedList[i], args)

\* isMatch after the loop over expectedList
isMatch(value, expectedList, args) ==
  \E i \in 1..Len(expectedList) : itemMatch(value, expectedList[i], args)

assertValueCommon(c, value, expected, args) ==
  IF isMatch(value, expected.items, args) THEN Passed(c)
  ELSE throwError(c, <<value>>, <<expected>>)

assertSpeech(expected, assertParams, response) ==
  LET c == checkedResponse(response)
  IN  IF c = <<>> THEN CannotBeCalledBeforeFirstQuery
      ELSE LET speech == getSpeech(c)
           IN  IF speech.outcome # "ok" THEN speech
               \* assert.isDefined(speech, 'Speech field is missing ...')
               ELSE IF speech.returned[1] = <<>> THEN AssertionError(c, <<>>, <<>>)
               ELSE assertValueCommon(c, speech.returned[1][1], expected, assertParams)

assertText(expected, assertParams, response) ==
  LET c == checkedResponse(response)
  IN  IF c = <<>> THEN CannotBeCalledBeforeFirstQuery
      ELSE LET text == getText(c)
           IN  IF text.outcome # "ok" THEN text
               ELSE IF text.returned[1] = <<>> THEN AssertionError(c, <<>>, <<>>)
               ELSE assertValueCommon(c, text.returned[1][1], expected, assertParams)

\* assert.equal / assert.deepEqual(actual, expected) on optional values
assertEqual(c, actual, expected) ==
  IF actual = expected THEN Passed(c) ELSE AssertionError(c, actual, expected)

assertIntent(expected, response) ==
  LET c == checkedResponse(response)
  IN  IF c = <<>> THEN CannotBeCalledBeforeFirstQuery
      ELSE LET intentName == getIntent(c)
           IN  IF intentName.outcome # "ok" THEN intentName
               ELSE assertEqual(c, intentName.returned[1], <<expected>>)

\* assert.deepEqual(actual, expected) on optional native values
assertDeepEqual(c, actual, expected) ==
  IF \/ actual = <<>> /\ expected = <<>>
     \/ actual # <<>> /\ expected # <<>> /\ DeepEqualNative(actual[1], expected[1])
  THEN Passed(c)
  ELSE AssertionError(c, actual, expected)

assertIntentParameter(parameterName, expected, response) ==
  LET c == checkedResponse(response)
  IN  IF c = <<>> THEN CannotBeCalledBeforeFirstQuery
      ELSE LET parameterValue == getIntentParameter(parameterName, c)
           IN  IF parameterValue.outcome # "ok" THEN parameterValue
               \* assert.exists(parameterValue, ...)
               ELSE IF parameterValue.returned[1] = <<>>
               THEN AssertionError(c, <<>>, expected)
               ELSE assertDeepEqual(c, parameterValue.returned[1], expected)

assertScene(expected, response) ==
  LET c == checkedResponse(response)
  IN  IF c = <<>> THEN CannotBeCalledBeforeFirstQuery
      ELSE assertEqual(c, getScene(c).returned[1], <<expected>>)

\* assert.deepOwnInclude(prompt, expected): every member expected has is a
\* member of prompt with an equal value
promptIncludes(prompt, expected) ==
  /\ expected.suggestions # <<>> => prompt.suggestions = expected.suggestions
  /\ expected.content # <<>> => prompt.content = expected.content

assertPrompt(expected, requireExact, response) ==
  LET c == checkedResponse(response)
  IN  IF c = <<>> THEN CannotBeCalledBeforeFirstQuery
      ELSE LET prompt == getPrompt(c).returned[1]
           IN  IF requireExact THEN assertEqual(c, prompt, <<expected>>)
               ELSE IF prompt # <<>> /\ promptIncludes(prompt[1], expected)
               THEN Passed(c)
               ELSE AssertionError(c, prompt, <<expected>>)

\* the element-by-element comparison of assertSuggestions / assertCanvasData
assertElements(c, actual, expected, requireExact) ==
  \* assert.exists(actual); assert.equal(actual.length, expected.length)
  IF actual = <<>> \/ Len(actual[1]) # Len(expected)
  THEN AssertionError(c, actual, <<expected>>)
  ELSE IF \A i \in 1..Len(expected) :
            IF requireExact THEN actual[1][i] = expected[i]
            ELSE expected[i] \subseteq actual[1][i]
  THEN Passed(c)
  ELSE AssertionError(c, actual, <<expected>>)

assertSuggestions(expected, requireExact, response) ==
  LET c == checkedResponse(response)
  IN  IF c = <<>> THEN CannotBeCalledBeforeFirstQuery
      ELSE assertElements(c, getSuggestions(c).returned[1], expected, requireExact)

assertCanvasURL(expected, response) ==
  LET c == checkedResponse(response)
  IN  IF c = <<>> THEN CannotBeCalledBeforeFirstQuery
      ELSE LET canvasURL == getCanvasURL(c)
           IN  IF canvasURL.outcome # "ok" THEN canvasURL
               ELSE assertEqual(c, canvasURL.returned[1], expected)

assertCanvasData(expected, requireExact, response) ==
  LET c == checkedResponse(response)
  IN  IF c = <<>> THEN CannotBeCalledBeforeFirstQuery
      ELSE LET canvasData == getCanvasData(c)
           IN  IF canvasData.outcome # "ok" THEN canvasData
               ELSE assertElements(c, canvasData.returned[1], expected, requireExact)

\* assertSessionParam, assertUserParam, assertHomeParam
assertStorageParam(storage, name, expected, response) ==
  LET c == checkedResponse(response)
  IN  IF c = <<>> THEN CannotBeCalledBeforeFirstQuery
      ELSE LET value == getStorageParam(storage, name, c)
           IN  IF value.outcome # "ok" THEN value
               ELSE assertDeepEqual(c, value.returned[1], expected)

\* assertCard, assertMedia, assertCollection, assertImage, assertTable,
\* assertList
assertContentBlock(kind, expected, requireExact, response) ==
  LET c == checkedResponse(response)
  IN  IF c = <<>> THEN CannotBeCalledBeforeFirstQuery
      ELSE LET block == getContentBlock(kind, c).returned[1]
           IN  IF requireExact THEN assertEqual(c, block, <<expected>>)
               ELSE IF block # <<>> /\ expected \subseteq block[1] THEN Passed(c)
               ELSE AssertionError(c, block, <<expected>>)

\* ---- the responses and arguments of the model's test cases ----
CHIP_HEADQUARTERS == {<<"title", "Headquarters">>}
CHIP_HISTORY == {<<"title", "History">>}
CARD == {<<"title", "Facts">>, <<"text", "about Google">>}
CANVAS_STATE == {<<"scene", "facts">>, <<"count", "1">>}

FactsData == StructOf(Struct(TRUE, <<Entry("title", StringValue("Fact fake title"))>>))

\* a response with every kind of content: its speech is 'a' + 'b'
WelcomeResponse ==
  ContentResponse(
    <<Output(<< <<(<<"a">>), (<<"b">>)>> >>,
             << <<"a", "b">> >>,
             <<Prompt(<< <<CHIP_HEADQUARTERS, CHIP_HISTORY>> >>,
                      <<Content("card", CARD)>>)>>,
             <<Canvas(<<"https://canvas">>, << <<CANVAS_STATE>> >>)>>)>>,
    TRUE, TRUE,
    <<Event(FALSE,
            <<IntentMatch(<<"actions.intent.MAIN">>,
                          << <<Parameter("intentParamString", <<StringValue("cats")>>),
                               Parameter("unresolved", <<>>)>> >>)>>,
            <<ExecutionState(<<"actions.scene.START_CONVERSATION">>, <<>>, <<>>, <<>>)>>),
      Event(FALSE, <<>>,
            <<ExecutionState(<<"Welcome">>,
                             <<Struct(TRUE, <<Entry("categoryType", StringValue("cats")),
                                              Entry("currentFactsData", FactsData)>>)>>,
                             <<NoStruct>>,
                             <<>>)>>)>>,
    Str("token1"))

\* a response with a text only, whose last event ends the conversation
GoodbyeResponse ==
  ContentResponse(
    <<Output(<<>>, << <<"b", "a", "b">> >>, <<>>, <<>>)>>,
    TRUE, TRUE, <<Event(TRUE, <<>>, <<>>)>>, Str("token2"))

\* an output without speech and text, diagnostics without events
SilentResponse ==
  ContentResponse(<<Output(<<>>, <<>>, <<Prompt(<<>>, <<>>)>>, <<>>)>>,
                  TRUE, FALSE, <<>>, Str("token1"))

\* responses that validateSendInteractionResponse rejects
NoOutputResponse ==
  ContentResponse(<<>>, TRUE, TRUE, <<Event(FALSE, <<>>, <<>>)>>, Str("token2"))

NoDiagnosticsResponse ==
  ContentResponse(<<Output(<<>>, << <<"a">> >>, <<>>, <<>>)>>,
                  FALSE, FALSE, <<>>, Str("token2"))

ContentResponses ==
  {WelcomeResponse, GoodbyeResponse, SilentResponse, NoOutputResponse,
   NoDiagnosticsResponse}

\* the optional response argument
ReadResponseArgs == {<<>>, <<GoodbyeResponse>>}

ExpectedTexts ==
  {ExpectedString(<<"a", "b">>), ExpectedString(<<"a", ".">>),
   ExpectedString(<<"b", "b">>),
   ExpectedArray(<<>>), ExpectedArray(<< <<"b", "b">>, <<"a">> >>),
   ExpectedArray(<< <<"b", "b">>, <<"a", "a">> >>)}

AssertValueArgsSet ==
  {AssertValueArgs(isExact, isRegexp) : isExact \in BOOLEAN, isRegexp \in BOOLEAN}

ExpectedIntents == {"actions.intent.MAIN", "actions.intent.CANCEL"}
ExpectedScenes == {"Welcome", UNCHANGED_SCENE}
ParameterNames == {"intentParamString", "unresolved"}
StorageParamNames == {"currentFactsData", "missingKey"}
ExpectedNatives ==
  {<<>>, <<Prim("string", "cats")>>,
   <<Obj(<<Entry("title", Prim("string", "Fact fake title"))>>)>>}
ExpectedPrompts ==
  {Prompt(<<>>, <<Content("card", CARD)>>),
   Prompt(<< <<CHIP_HEADQUARTERS, CHIP_HISTORY>> >>, <<Content("card", CARD)>>),
   Prompt(<< <<CHIP_HISTORY>> >>, <<>>)}
ExpectedSuggestions == {<<CHIP_HEADQUARTERS, CHIP_HISTORY>>, <<CHIP_HISTORY>>, <<{}, {}>>}
ExpectedURLs == {<<>>, <<"https://canvas">>}
ExpectedCanvasData == {<<CANVAS_STATE>>, <<{<<"scene", "facts">>}>>, <<>>}
ExpectedBlocks == {{<<"title", "Facts">>}, {<<"title", "History">>}}

\* the name of a getter or assertion of a content block or storage member
OpName(prefix, member) ==
  prefix \o
    CASE member = "card" -> "Card" [] member = "image" -> "Image"
      [] member = "table" -> "Table" [] member = "collection" -> "Collection"
      [] member = "list" -> "List" [] member = "media" -> "Media"
      [] member = "sessionStorage" -> "SessionParam"
      [] member = "userStorage" -> "UserParam"
      [] member = "householdStorage" -> "HomeParam"

\* number of getters and assertions a test case calls in a row
MaxReads == 1

\* A test case calls the getter or assertion op, which does what result says.
Read(op, args, result) ==
  /\ steps < MaxSteps
  /\ pc = "idle"
  /\ reads < MaxReads
  /\ reads' = reads + 1
  /\ LET r == result
     IN  /\ Called(op, r.outcome, FALSE)
         /\ checked' = r.checked
         /\ returned' = r.returned
         /\ errorInfo' = r.error
  /\ callArgs' = args
  /\ UNCHANGED <<heap, other, suiteInteractionDefaults, testInteractionDefaults,
                 sentRequest, callParams, latestResponse, lastUserQuery,
                 currentLocale, pc, answered, answeredQuery, lastReturned, mergeVars,
                 extraVars>>

Getters ==
  \E response \in ReadResponseArgs :
    \/ Read("getSpeech", <<response>>, getSpeech(response))
    \/ Read("getText", <<response>>, getText(response))
    \/ Read("getIntent", <<response>>, getIntent(response))
    \/ \E name \in ParameterNames :
         Read("getIntentParameter", <<response, name>>,
              getIntentParameter(name, response))
    \/ Read("getScene", <<response>>, getScene(response))
    \/ Read("getPrompt", <<response>>, getPrompt(response))
    \/ Read("getSuggestions", <<response>>, getSuggestions(response))
    \/ Read("getContent", <<response>>, getContent(response))
    \/ \E kind \in ContentKinds :
         Read(OpName("get", kind), <<response, kind>>,
              getContentBlock(kind, response))
    \/ Read("getIsConversationEnded", <<response>>,
         readIsConversationEnded(response))
    \/ \E storage \in StorageNames, name \in StorageParamNames :
         Read(OpName("get", storage), <<response, storage, name>>,
              getStorageParam(storage, name, response))
    \/ Read("getCanvasURL", <<response>>, getCanvasURL(response))
    \/ Read("getCanvasData", <<response>>, getCanvasData(response))

TextAssertions ==
  \E response \in ReadResponseArgs, expected \in ExpectedTexts,
     assertParams \in AssertValueArgsSet :
    \/ Read("assertSpeech", <<response, expected, assertParams>>,
         assertSpeech(expected, assertParams, response))
    \/ Read("assertText", <<response, expected, assertParams>>,
         assertText(expected, assertParams, response))

Assertions ==
  \E response \in ReadResponseArgs :
    \/ \E expected \in ExpectedIntents :
         Read("assertIntent", <<response, expected>>,
              assertIntent(expected, response))
    \/ \E name \in ParameterNames, expected \in ExpectedNatives :
         Read("assertIntentParameter", <<response, name, expected>>,
              assertIntentParameter(name, expected, response))
    \/ \E expected \in ExpectedScenes :
         Read("assertScene", <<response, expected>>,
              assertScene(expected, response))
    \/ \E expected \in ExpectedPrompts, requireExact \in BOOLEAN :
         Read("assertPrompt", <<response, expected, requireExact>>,
              assertPrompt(expected, requireExact, response))
    \/ \E expected \in ExpectedSuggestions, requireExact \in BOOLEAN :
         Read("assertSuggestions", <<response, expected, requireExact>>,
              assertSuggestions(expected, requireExact, response))
    \/ \E expected \in ExpectedURLs :
         Read("assertCanvasURL", <<response, expected>>,
              assertCanvasURL(expected, response))
    \/ \E expected \in ExpectedCanvasData, requireExact \in BOOLEAN :
         Read("assertCanvasData", <<response, expected, requireExact>>,
              assertCanvasData(expected, requireExact, response))
    \/ \E storage \in StorageNames, name \in StorageParamNames,
          expected \in ExpectedNatives :
         Read(OpName("assert", storage), <<response, storage, name, expected>>,
              assertStorageParam(storage, name, expected, response))
    \/ \E kind \in ContentKinds, expected \in ExpectedBlocks, requireExact \in BOOLEAN :
         Read(OpName("assert", kind), <<response, kind, expected, requireExact>>,
              assertContentBlock(kind, expected, requireExact, response))
    \/ AssertConversationEnded(response)
    \/ AssertConversationNotEnded(response)

\* A test case: queries answered by the service, the getters and assertions
\* on the responses, and the clean-up.
ReadNext ==
  \/ CleanUpAfterTest
  \/ \E queryText \in Queries : SendQuery(queryText)
  \/ ApiCallFails
  \/ \E response \in ContentResponses : ApiCallReturns(response)
  \/ Getters
  \/ TextAssertions
  \/ Assertions

ReadSpec == Init /\ [][ReadNext]_vars

(***************************************************************************)
(* The match-intents assertions: assertTopMatchedIntent and                *)
(* assertMatchIntentsFromYamlFile, each awaiting the matchIntents calls it  *)
(* issues.                                                                 *)
(***************************************************************************)
\* number of test cases of a YAML test suite
MaxCases == 2

\* number of match-intents assertions a test calls
MaxMatchOps == 1

\* !x of an optional string: undefined and '' are falsy
Falsy(opt) == opt = <<>> \/ opt[1] = ""

\* IMatchIntentsRequest after ActionsApiHelper.matchIntents set the project
MatchIntentsRequest(locale, query) ==
  [locale |-> locale, query |-> query, project |-> PROJECT]

\* IMatchIntentsResponse: matchedIntents is <<>> when the section is missing;
\* an intent has an optional name
Intent(name) == [name |-> name]
MatchIntentsResponse(matchedIntents) == [matchedIntents |-> matchedIntents]

\* MatchIntentsTestSuite of the YAML file and its test cases
TestCase(query, expectedIntent) ==
  [query |-> query, expectedIntent |-> expectedIntent]
TestSuite(testCases, defaultLanguage) ==
  [testCases |-> testCases, defaultLanguage |-> defaultLanguage]

\* the arguments of the assertion in progress
MatchOp(query, expectedIntent, requiredPlace, language, yamlData) ==
  [query |-> query, expectedIntent |-> expectedIntent,
   requiredPlace |-> requiredPlace, language |-> language,
   yamlData |-> yamlData]

\* getMatchIntents: the locale of the request,
\* queryLanguage || this.getTestInteractionMergedDefaults().deviceProperties!.locale!
getMatchIntentsLocale(queryLanguage) ==
  IF ~Falsy(queryLanguage)
  THEN [raised |-> FALSE, locale |-> Str(queryLanguage[1])]
  ELSE LET d == getTestInteractionMergedDefaults(heap)
           deviceProperties == Get(d.h, d.v, "deviceProperties")
       IN  IF deviceProperties.t = "ref"
           THEN [raised |-> FALSE,
                 locale |-> Get(d.h, deviceProperties, "locale")]
           ELSE [raised |-> TRUE, locale |-> UNDEFINED]

\* array.slice(0, end)
slice(array, end) ==
  LET len == Len(array)
      to == IF end < 0
            THEN (IF len + end < 0 THEN 0 ELSE len + end)
            ELSE (IF end > len THEN len ELSE end)
  IN  SubSeq(array, 1, to)

\* array.includes(name)
includesName(array, name) == \E i \in 1..Len(array) : array[i] = <<name>>

\* getMatchIntentsList on the response: the names in order, or the raise of
\* expect(responseMatchIntents['matchedIntents']).to.exist
matchedIntentNames(response) ==
  IF response.matchedIntents = <<>>
  THEN [raised |-> TRUE, names |-> <<>>]
  ELSE LET intents == response.matchedIntents[1]
       IN  [raised |-> FALSE,
            names |-> [i \in 1..Len(intents) |-> intents[i].name]]

\* the check of assertTopMatchedIntent that takes the first requiredPlace names
topMatchedIntentAmongFirst(names, expectedIntent, requiredPlace) ==
  includesName(slice(names, requiredPlace), expectedIntent)

\* the check of assertTopMatchedIntent:
\* matchedIntents.slice(0, requiredPlace - 1).includes(expectedIntent)
topMatchedIntentCheck(names, expectedIntent, requiredPlace) ==
  includesName(slice(names, requiredPlace - 1), expectedIntent)

\* requiredPlace = 1 when the argument is undefined
requiredPlaceOf(arg) == IF arg = <<>> THEN 1 ELSE arg[1]

\* a variant that returns the name of the last matched intent
getBottomMatchIntentFromMatchResponse(matchResponse) ==
  IF matchResponse.matchedIntents = <<>>
  THEN [raised |-> TRUE, name |-> <<>>]
  ELSE LET intents == matchResponse.matchedIntents[1]
       IN  [raised |-> FALSE,
            name |-> IF Len(intents) > 0 THEN intents[Len(intents)].name
                     ELSE <<>>]

\* getTopMatchIntentFromMatchResponse: the name of the first intent, null
\* (<<>>) if there is no intent or it has no name; raises without the section
getTopMatchIntentFromMatchResponse(matchResponse) ==
  IF matchResponse.matchedIntents = <<>>
  THEN [raised |-> TRUE, name |-> <<>>]
  ELSE LET intents == matchResponse.matchedIntents[1]
       IN  [raised |-> FALSE,
            name |-> IF Len(intents) > 0 THEN intents[1].name ELSE <<>>]

\* one entry of failedQueries
FailedQuery(query, actual, expected) ==
  [query |-> query, actual |-> actual, expected |-> expected]

\* The loop of assertMatchIntentsFromYamlFile from test case i up to its next
\* await: it raises, issues the call of test case i, or ends with
\* expect(failedQueries).to.be.empty.
yamlLoop(yamlData, queriesLanguage, i, failed) ==
  LET testCases == yamlData.testCases[1]
      testCase == testCases[i]
      language == IF Falsy(yamlData.defaultLanguage) THEN queriesLanguage
                  ELSE yamlData.defaultLanguage
  IN  IF i > Len(testCases)
      THEN [to |-> "end",
            outcome |-> IF failed = <<>> THEN "ok" ELSE "assertion_failed",
            language |-> <<>>]
      ELSE IF Falsy(testCase.query)
      THEN [to |-> "raise", outcome |-> "missing_query", language |-> <<>>]
      ELSE IF Falsy(testCase.expectedIntent)
      THEN [to |-> "raise", outcome |-> "missing_expected_intent",
            language |-> <<>>]
      ELSE IF Falsy(yamlData.defaultLanguage) /\ queriesLanguage = <<>>
      THEN [to |-> "raise", outcome |-> "missing_language", language |-> <<>>]
      ELSE [to |-> "call", outcome |-> "pending", language |-> language]

\* what a match-intents assertion leaves alone
MatchFrame ==
  /\ checked' = <<>>
  /\ returned' = <<>>
  /\ callArgs' = <<>>
  /\ UNCHANGED <<heap, other, suiteInteractionDefaults, testInteractionDefaults,
                 sentRequest, callParams, latestResponse, lastUserQuery,
                 currentLocale, answered, answeredQuery, lastReturned, mergeVars,
                 decoderVars, concurrentVars>>

\* the state of assertMatchIntentsFromYamlFile that continues as next says
\* after the calls it made, the call of test case i being the one it issues
\* if it issues one
MatchContinues(calls, next, yamlData, i, failed) ==
  /\ failedQueries' = failed
  /\ errorInfo' = IF next.outcome \in {"ok", "pending"} THEN NoError
                  ELSE Error(next.outcome, <<>>, <<failed>>, <<>>)
  /\ IF next.to = "call"
     THEN LET l == getMatchIntentsLocale(next.language)
              query == yamlData.testCases[1][i].query[1]
          IN  /\ miIndex' = i
              /\ miCalls' = IF l.raised THEN calls
                            ELSE Append(calls, MatchIntentsRequest(l.locale, query))
              /\ pc' = IF l.raised THEN "idle" ELSE "matching"
              /\ outcome' = IF l.raised THEN "type_error" ELSE "pending"
     ELSE /\ miIndex' = i
          /\ miCalls' = calls
          /\ pc' = "idle"
          /\ outcome' = next.outcome

\* await assertTopMatchedIntent(query, expectedIntent, requiredPlace,
\* queryLanguage) up to the awaited matchIntents call
AssertTopMatchedIntent(query, expectedIntent, requiredPlace, queryLanguage) ==
  LET l == getMatchIntentsLocale(queryLanguage)
  IN  /\ Len(miOp) < MaxMatchOps
      /\ reads' = reads + 1
      /\ Called("assertTopMatchedIntent",
                IF l.raised THEN "type_error" ELSE "pending", ~l.raised)
      /\ pc' = IF l.raised THEN "idle" ELSE "matching"
      /\ miOp' = Append(miOp, MatchOp(query, expectedIntent, requiredPlace,
                                      queryLanguage, <<>>))
      /\ miIndex' = 0
      /\ failedQueries' = <<>>
      /\ miCalls' = IF l.raised THEN <<>>
                    ELSE <<MatchIntentsRequest(l.locale, query)>>
      /\ miAnswers' = <<>>
      /\ errorInfo' = IF l.raised THEN Error("type_error", <<>>, <<>>, <<>>)
                      ELSE NoError
      /\ MatchFrame

\* await assertMatchIntentsFromYamlFile(yamlFile, queriesLanguage) up to the
\* first awaited matchIntents call; yamlData is what yaml.safeLoad returned
\* for the file (<<>> when it returned nothing), its testCases <<>> when the
\* file has none
AssertMatchIntentsFromYamlFile(yamlData, queriesLanguage) ==
  LET raised ==
        IF yamlData = <<>> THEN "no_yaml_data"
        ELSE IF yamlData[1].testCases = <<>> THEN "no_test_cases"
        ELSE "none"
  IN  /\ Len(miOp) < MaxMatchOps
      /\ reads' = reads + 1
      /\ lastOp' = "assertMatchIntentsFromYamlFile"
      /\ steps < MaxSteps
      /\ steps' = steps + 1
      /\ pc = "idle"
      /\ prevResponse' = latestResponse
      /\ miOp' = Append(miOp, MatchOp("", "", <<>>, queriesLanguage, yamlData))
      /\ miAnswers' = <<>>
      /\ IF raised # "none"
         THEN /\ outcome' = raised
              /\ issued' = FALSE
              /\ pc' = "idle"
              /\ miIndex' = 0
              /\ failedQueries' = <<>>
              /\ miCalls' = <<>>
              /\ errorInfo' = Error(raised, <<>>, <<>>, <<>>)
         ELSE LET next == yamlLoop(yamlData[1], queriesLanguage, 1, <<>>)
              IN  /\ issued' = (next.to = "call")
                  /\ MatchContinues(<<>>, next, yamlData[1], 1, <<>>)
      /\ MatchFrame

\* the awaited matchIntents call returns: assertTopMatchedIntent checks the
\* names, assertMatchIntentsFromYamlFile records a mismatch and goes on with
\* the next test case
MatchIntentsReturns(response) ==
  /\ pc = "matching"
  /\ miAnswers' = Append(miAnswers, response)
  /\ LET op == miOp[Len(miOp)]
     IN  IF lastOp = "assertTopMatchedIntent"
         THEN LET list == matchedIntentNames(response)
                  found == topMatchedIntentCheck(list.names, op.expectedIntent,
                                                 requiredPlaceOf(op.requiredPlace))
              IN  /\ pc' = "idle"
                  /\ outcome' = IF list.raised THEN "missing_matched_intents"
                                ELSE IF found THEN "ok"
                                ELSE "assertion_failed"
                  /\ errorInfo' =
                       IF list.raised
                       THEN Error("missing_matched_intents", <<>>, <<>>, <<>>)
                       ELSE IF found THEN NoError
                       ELSE Error("assertion_failed", <<lastUserQuery>>,
                                  <<list.names>>, <<op.expectedIntent>>)
                  /\ UNCHANGED <<miIndex, failedQueries, miCalls>>
         ELSE LET yamlData == op.yamlData[1]
                  testCase == yamlData.testCases[1][miIndex]
                  top == getTopMatchIntentFromMatchResponse(response)
                  failed == IF top.name # testCase.expectedIntent
                            THEN Append(failedQueries,
                                        FailedQuery(testCase.query, top.name,
                                                    testCase.expectedIntent))
                            ELSE failedQueries
              IN  IF top.raised
                  THEN /\ pc' = "idle"
                       /\ outcome' = "missing_matched_intents"
                       /\ errorInfo' =
                            Error("missing_matched_intents", <<>>, <<>>, <<>>)
                       /\ UNCHANGED <<miIndex, failedQueries, miCalls>>
                  ELSE MatchContinues(miCalls,
                                      yamlLoop(yamlData, op.language,
                                               miIndex + 1, failed),
                                      yamlData, miIndex + 1, failed)
  /\ UNCHANGED <<heap, other, suiteInteractionDefaults, testInteractionDefaults,
                 sentRequest, callParams, latestResponse, lastUserQuery,
                 currentLocale, lastOp, issued, prevResponse, checked,
                 returned, callArgs, reads, answered, answeredQuery, lastReturned, steps,
                 miOp, mergeVars, decoderVars, concurrentVars>>

\* the awaited matchIntents call fails: the helper rethrows with its prefix
MatchIntentsFails ==
  /\ pc = "matching"
  /\ pc' = "idle"
  /\ outcome' = "api_call_failed"
  /\ errorInfo' = Error("api_call_failed", <<>>, <<>>, <<>>)
  /\ UNCHANGED <<heap, other, suiteInteractionDefaults, testInteractionDefaults,
                 sentRequest, callParams, latestResponse, lastUserQuery,
                 currentLocale, lastOp, issued, prevResponse, checked,
                 returned, callArgs, reads, answered, answeredQuery, lastReturned, steps,
                 mergeVars, extraVars>>

\* ---- the inputs of the match-intents assertions ----
MatchQuery == "help"
IntentNames == {"HELP", "MAIN"}
RequiredPlaces == {<<>>, <<1>>, <<2>>, <<3>>}
QueryLanguages == {<<>>, <<"">>, <<"en">>}
YamlLanguages == {<<>>, <<"en">>}

MatchIntentsResponses ==
  {MatchIntentsResponse(<<>>),
   MatchIntentsResponse(<< <<>> >>),
   MatchIntentsResponse(<< <<Intent(<<"HELP">>)>> >>),
   MatchIntentsResponse(<< <<Intent(<<"MAIN">>), Intent(<<"HELP">>)>> >>),
   MatchIntentsResponse(<< <<Intent(<<>>), Intent(<<"MAIN">>)>> >>)}

TestCases ==
  {TestCase(<<"help">>, <<"HELP">>), TestCase(<<"start">>, <<"MAIN">>),
   TestCase(<<>>, <<"HELP">>), TestCase(<<"help">>, <<>>)}

YamlData ==
  {<<>>, <<TestSuite(<<>>, <<"en">>)>>}
    \cup {<<TestSuite(<<testCases>>, defaultLanguage)>> :
            testCases \in SeqsUpTo(TestCases, MaxCases),
            defaultLanguage \in YamlLanguages}

MatchNext ==
  \/ \E locale \in LocaleArgs : SetTestLocale(locale)
  \/ \E expectedIntent \in IntentNames, requiredPlace \in RequiredPlaces,
        queryLanguage \in QueryLanguages :
       AssertTopMatchedIntent(MatchQuery, expectedIntent, requiredPlace,
                              queryLanguage)
  \/ \E yamlData \in YamlData, queriesLanguage \in YamlLanguages :
       AssertMatchIntentsFromYamlFile(yamlData, queriesLanguage)
  \/ \E response \in MatchIntentsResponses : MatchIntentsReturns(response)
  \/ MatchIntentsFails

MatchSpec == Init /\ [][MatchNext]_vars

(***************************************************************************)
(* Properties of the conversation (checked under Spec).                    *)
(***************************************************************************)
SendOps == {"sendInteraction", "sendQuery", "sendStop"}

\* the response has a last execution event / one carrying the marker
HasLastEvent(response) == response.hasEvents /\ Len(response.events) > 0

MarkedEnded(response) ==
  HasLastEvent(response) /\ response.events[Len(response.events)].endConversation

C2_EndedConversationRejected ==
  (lastOp \in SendOps /\ prevResponse # <<>> /\ MarkedEnded(prevResponse[1]))
    => /\ outcome = "conversation_ended"
       /\ ~issued
       /\ latestResponse = prevResponse

\* C3: getIsConversationEnded is true exactly for the responses whose last
\* execution event carries the end-of-conversation marker; so
\* assertConversationEnded passes, and assertConversationNotEnded raises,
\* exactly on those.
C3_ConversationEndDetected ==
  /\ (latestResponse # <<>> /\ HasLastEvent(latestResponse[1]))
       => (getIsConversationEnded(latestResponse[1]) = MarkedEnded(latestResponse[1]))
  /\ (lastOp = "assertConversationEnded" /\ checked # <<>> /\ HasLastEvent(checked[1]))
       => ((outcome = "ok") = MarkedEnded(checked[1]))
  /\ (lastOp = "assertConversationNotEnded" /\ checked # <<>> /\ HasLastEvent(checked[1]))
       => ((outcome = "assertion_failed") = MarkedEnded(checked[1]))

\* C10: when no call is in progress, getLatestResponse is the response of
\* the last sendInteraction that returned without raising since construction
\* or the last cleanUpAfterTest (null if none), and an assertion reads that
\* response or the one it was given.
C10_LatestResponseIsLastReturned ==
  /\ pc = "idle" => latestResponse = lastReturned
  /\ lastOp \in {"assertConversationEnded", "assertConversationNotEnded"}
       => checked \in ExplicitResponses \cup {lastReturned}

(***************************************************************************)
(* Properties of the configuration layers (checked under ConfigSpec).      *)
(***************************************************************************)
\* C8: the suite layer, the test layer and the merged effective parameters
\* share no plain-object node with one another.
C8_LayersShareNoNode ==
  pc = "idle"
    => LET m == getTestInteractionMergedDefaults(heap)
           suite == PlainNodes(heap, suiteInteractionDefaults)
           test == PlainNodes(heap, testInteractionDefaults)
           merged == PlainNodes(m.h, m.v)
       IN  /\ suite \cap test = {}
           /\ suite \cap merged = {}
           /\ test \cap merged = {}

\* the leaves of a request
LeafPaths ==
  {<<"input", "type">>, <<"input", "query">>,
   <<"deviceProperties", "locale">>, <<"deviceProperties", "surface">>,
   <<"deviceProperties", "timeZone">>,
   <<"deviceProperties", "location", "coordinates", "latitude">>,
   <<"deviceProperties", "location", "coordinates", "longitude">>,
   <<"conversationToken">>, <<"project">>}

\* the value found by following path from v (undefined when there is none)
RECURSIVE PathGet(_, _, _)
PathGet(h, v, path) ==
  IF path = <<>> THEN v
  ELSE IF isPlainObject(h, v) THEN PathGet(h, Get(h, v, Head(path)), Tail(path))
  ELSE UNDEFINED

\* what the layering prescribes for a leaf: the per-call value, else the test
\* value, else the suite value
Layered(path) ==
  IF PathGet(heap, callParams, path) # UNDEFINED
  THEN PathGet(heap, callParams, path)
  ELSE IF PathGet(heap, testInteractionDefaults, path) # UNDEFINED
  THEN PathGet(heap, testInteractionDefaults, path)
  ELSE PathGet(heap, suiteInteractionDefaults, path)

\* C9 as stated: every leaf that some layer sets reaches the outgoing request
\* with the value of the highest layer that sets it.
C9_RequestIsLayeredMerge ==
  sentRequest # UNDEFINED
    => \A path \in LeafPaths :
         Layered(path) # UNDEFINED
           => PathGet(heap, sentRequest, path) = Layered(path)

\* C9 amended: the outgoing request is the layered merge on every leaf other
\* than conversationToken and project; conversationToken is the cached
\* response's token when a response is cached (else the layered value), and
\* project is the API helper's project path.
C9_RequestIsLayeredMergeExceptTokenAndProject ==
  sentRequest # UNDEFINED
    => /\ \A path \in LeafPaths \ {<<"conversationToken">>, <<"project">>} :
            PathGet(heap, sentRequest, path) = Layered(path)
       /\ Get(heap, sentRequest, TOKEN_FIELD_NAME) =
            IF prevResponse # <<>> THEN prevResponse[1].conversationToken
            ELSE Layered(<<"conversationToken">>)
       /\ Get(heap, sentRequest, "project") = PROJECT

C9_Witness ==
  /\ sentRequest # UNDEFINED
  /\ PathGet(heap, callParams, <<"deviceProperties", "surface">>) = Str("PHONE")
  /\ PathGet(heap, testInteractionDefaults, <<"deviceProperties", "surface">>) = Str("SMART_DISPLAY")
  /\ PathGet(heap, testInteractionDefaults, <<"deviceProperties", "locale">>) = Str("fr-FR")
  /\ PathGet(heap, suiteInteractionDefaults, <<"deviceProperties", "locale">>) = Str("en-US")
  /\ PathGet(heap, sentRequest, <<"deviceProperties", "surface">>) = Str("PHONE")
  /\ PathGet(heap, sentRequest, <<"deviceProperties", "locale">>) = Str("fr-FR")
  /\ PathGet(heap, sentRequest, <<"deviceProperties", "timeZone">>) = Str(DEFAULT_TIMEZONE)

(***************************************************************************)
(* Properties of getValueFromField (checked under DecoderSpec).            *)
(***************************************************************************)
\* every struct value inside f, at any depth, has a field map
RECURSIVE HasFieldMaps(_)
HasFieldMaps(f) ==
  /\ "listValue" \in f.has
       => \A i \in 1..Len(f.listValue.values) : HasFieldMaps(f.listValue.values[i])
  /\ "structValue" \in f.has
       => /\ f.structValue.hasFields
          /\ \A i \in 1..Len(f.structValue.fields) :
               HasFieldMaps(f.structValue.fields[i].v)

\* r is the elementwise decoding of f: for a list the sequence of the
\* decodings of its values, for a struct the map from each of its keys to the
\* decoding of that key's value, and so on inside the elements
RECURSIVE ElementwiseDecoded(_, _)
ElementwiseDecoded(f, r) ==
  IF f.has = {"listValue"}
  THEN /\ r.t = "array"
       /\ Len(r.items) = Len(f.listValue.values)
       /\ \A i \in 1..Len(r.items) :
            /\ getValueFromField(f.listValue.values[i]) = Returns(r.items[i])
            /\ ElementwiseDecoded(f.listValue.values[i], r.items[i])
  ELSE IF f.has = {"structValue"}
  THEN /\ r.t = "object"
       /\ {r.fields[i].k : i \in 1..Len(r.fields)}
            = {f.structValue.fields[i].k : i \in 1..Len(f.structValue.fields)}
       /\ Len(r.fields) = Len(f.structValue.fields)
       /\ \A i \in 1..Len(r.fields) : \A j \in 1..Len(f.structValue.fields) :
            r.fields[i].k = f.structValue.fields[j].k
              => /\ getValueFromField(f.structValue.fields[j].v) = Returns(r.fields[i].v)
                 /\ ElementwiseDecoded(f.structValue.fields[j].v, r.fields[i].v)
  ELSE TRUE

CatsAndDogs ==
  ListOf(ListValue(TRUE, <<StringValue("cats"), StringValue("dogs")>>))

FirstPresent(f) ==
  Discriminants[CHOOSE i \in 1..Len(Discriminants) :
                  /\ Discriminants[i] \in f.has
                  /\ \A j \in 1..(i - 1) : Discriminants[j] \notin f.has]

\* C18: a typed value with several members decodes as the typed value that
\* has only the first of them in the order boolValue, numberValue,
\* stringValue, nullValue, listValue, structValue; for the four primitive
\* members that is the member's own value.
C18_FirstDiscriminantWins ==
  (dOp = "decode" /\ Cardinality(dField[1].has) > 1)
    => LET first == FirstPresent(dField[1])
       IN  /\ dResult[1] = getValueFromField([dField[1] EXCEPT !.has = {first}])
           /\ first = "boolValue" => dResult[1] = Returns(dField[1].boolValue)
           /\ first = "numberValue" => dResult[1] = Returns(dField[1].numberValue)
           /\ first = "stringValue" => dResult[1] = Returns(dField[1].stringValue)
           /\ first = "nullValue" => dResult[1] = Returns(dField[1].nullValue)

C18_Witness ==
  /\ dOp = "decode"
  /\ dField[1].has = {"listValue", "structValue"}
  /\ dResult[1] = Returns(Arr(<<Prim("string", "cats")>>))

\* C19: decoding never raises, whatever the typed value (no member, a list
\* without values, a struct without fields), and a typed value without a
\* member decodes to null.
C19_DecoderNeverRaises ==
  dOp = "decode"
    => /\ ~dResult[1].raised
       /\ dField[1].has = {} => dResult[1].v = NULL_NATIVE

\* C20: a native value (boolean, number, string, null, list of primitives,
\* struct inside a list, list inside a struct) encoded into its typed-value
\* case decodes to a value deep-equal to it; null decodes to null.
C20_DecodeInvertsEncode ==
  dOp = "roundTrip"
    => /\ ~dResult[1].raised
       /\ DeepEqualNative(dResult[1].v, dNative[1])

(***************************************************************************)
(* Properties of the getters and assertions (checked under ReadSpec).      *)
(***************************************************************************)
ContentGetters == {OpName("get", kind) : kind \in ContentKinds}
ContentAssertions == {OpName("assert", kind) : kind \in ContentKinds}
StorageGetters == {OpName("get", storage) : storage \in StorageNames}
StorageAssertions == {OpName("assert", storage) : storage \in StorageNames}

\* the getXXX operations that read a response
GetOps ==
  {"getSpeech", "getText", "getIntent", "getIntentParameter", "getScene",
   "getPrompt", "getSuggestions", "getContent", "getIsConversationEnded",
   "getCanvasURL", "getCanvasData"} \cup ContentGetters \cup StorageGetters

\* the assertXXX operations on a response
AssertOps ==
  {"assertSpeech", "assertText", "assertIntent", "assertIntentParameter",
   "assertScene", "assertPrompt", "assertSuggestions", "assertCanvasURL",
   "assertCanvasData", "assertConversationEnded", "assertConversationNotEnded"}
    \cup ContentAssertions \cup StorageAssertions

\* C11: a getXXX or assertXXX operation on a response, called without a
\* response argument while no response is cached, raises the error saying
\* that it cannot be called before the first query, and returns no value.
C11_NoResponseNoAnswer ==
  (lastOp \in GetOps \cup AssertOps /\ prevResponse = <<>> /\ callArgs[1] = <<>>)
    => /\ outcome = "before_first_query"
       /\ errorInfo.kind = "before_first_query"
       /\ returned = <<>>

\* a content getter is called after the clean-up that followed a response
C11_Witness ==
  /\ lastOp = "getCard"
  /\ prevResponse = <<>>
  /\ callArgs[1] = <<>>
  /\ steps > 1
  /\ outcome = "before_first_query"

\* the text and the speech of a response that has an output
TextOf(response) == response.output[1].text
SpeechOf(response) ==
  IF response.output[1].speech # <<>>
  THEN <<join(response.output[1].speech[1])>> ELSE TextOf(response)

\* the value assertSpeech / assertText compares: <<>> when there is none
ActualValue ==
  IF checked = <<>> \/ ~checked[1].hasOutput THEN <<>>
  ELSE IF lastOp = "assertSpeech" THEN SpeechOf(checked[1])
  ELSE TextOf(checked[1])

\* item is a substring of value
IsSubstring(item, value) ==
  \E i \in 1..(Len(value) + 1), j \in 0..Len(value) : SubSeq(value, i, j) = item

\* the assertion called last is assertSpeech or assertText on a value, in
\* the mode isExact / isRegexp
TextAssertionIn(isExact, isRegexp) ==
  /\ lastOp \in {"assertSpeech", "assertText"}
  /\ ActualValue # <<>>
  /\ callArgs[3] = AssertValueArgs(isExact, isRegexp)

\* C12: in the default mode assertSpeech / assertText pass if and only if
\* some element of the expected list (a single string is a list of one) is a
\* substring of the actual value; otherwise they raise.
C12_DefaultModeIsSubstringOfOne ==
  TextAssertionIn(FALSE, FALSE)
    => /\ outcome \in {"ok", "assertion_failed"}
       /\ outcome = "ok"
            <=> \E i \in 1..Len(callArgs[2].items) :
                  IsSubstring(callArgs[2].items[i], ActualValue[1])

\* ['bb', 'a'] against the speech 'ab' passes
C12_Witness ==
  /\ TextAssertionIn(FALSE, FALSE)
  /\ lastOp = "assertSpeech"
  /\ callArgs[1] = <<>>
  /\ callArgs[2] = ExpectedArray(<< <<"b", "b">>, <<"a">> >>)
  /\ ActualValue = << <<"a", "b">> >>
  /\ outcome = "ok"

\* C13: with isExact (and not isRegexp) assertSpeech / assertText pass if
\* and only if the actual value is identical to some element of the expected
\* list; a proper substring of the actual value does not pass.
C13_ExactModeIsIdentityWithOne ==
  TextAssertionIn(TRUE, FALSE)
    => /\ outcome \in {"ok", "assertion_failed"}
       /\ outcome = "ok"
            <=> \E i \in 1..Len(callArgs[2].items) :
                  callArgs[2].items[i] = ActualValue[1]

\* ['bb', 'a'] against the text 'ab' raises with isExact
C13_Witness ==
  /\ TextAssertionIn(TRUE, FALSE)
  /\ lastOp = "assertText"
  /\ callArgs[2] = ExpectedArray(<< <<"b", "b">>, <<"a">> >>)
  /\ ActualValue = << <<"a", "b">> >>
  /\ outcome = "assertion_failed"
  /\ errorInfo.query = <<Str("hello")>>

\* C14: the error of every failed assertion carries the last user query
\* together with the actual and the expected value.
C14_FailureCarriesQuery ==
  (lastOp \in AssertOps /\ outcome = "assertion_failed")
    => /\ errorInfo.query = <<lastUserQuery>>
       /\ errorInfo.expected # <<>>


(***************************************************************************)
(* Properties of the match-intents assertions (checked under MatchSpec).   *)
(***************************************************************************)
\* the match-intents assertion called last and the test cases of its file
LastMatchOp == miOp[Len(miOp)]
YamlCases == LastMatchOp.yamlData[1].testCases[1]

\* assertTopMatchedIntent got its response and looked for the intent
TopMatchedIntentChecked ==
  /\ lastOp = "assertTopMatchedIntent"
  /\ pc = "idle"
  /\ outcome \in {"ok", "assertion_failed"}

\* expectedIntent is the name of one of the first n intents of the response
AmongFirst(response, expectedIntent, n) ==
  \E i \in 1..Len(response.matchedIntents[1]) :
     /\ i <= n
     /\ response.matchedIntents[1][i].name = <<expectedIntent>>

\* the place asked for, 1 when none is given
PlaceAsked ==
  IF LastMatchOp.requiredPlace = <<>> THEN 1 ELSE LastMatchOp.requiredPlace[1]

\* C15: assertTopMatchedIntent(query, expectedIntent, N, language) succeeds
\* if and only if expectedIntent is among the first N intent names the
\* match-intents call returned for the query (N is 1 when not given), and
\* raises otherwise.
C15_SucceedsIffAmongFirstN ==
  TopMatchedIntentChecked
    => (outcome = "ok"
          <=> AmongFirst(miAnswers[1], LastMatchOp.expectedIntent, PlaceAsked))

\* the file of assertMatchIntentsFromYamlFile has test cases, each with a
\* query and an expected intent
AllCasesComplete ==
  /\ lastOp = "assertMatchIntentsFromYamlFile"
  /\ LastMatchOp.yamlData # <<>>
  /\ LastMatchOp.yamlData[1].testCases # <<>>
  /\ \A i \in 1..Len(YamlCases) :
       ~Falsy(YamlCases[i].query) /\ ~Falsy(YamlCases[i].expectedIntent)

\* the name of the top intent of a response, <<>> when it has none
TopName(response) ==
  IF response.matchedIntents = <<>> THEN <<>>
  ELSE IF response.matchedIntents[1] = <<>> THEN <<>>
  ELSE response.matchedIntents[1][1].name

\* the top matched intent of test case i differs from its expected intent
Mismatch(i) ==
  /\ i <= Len(miAnswers)
  /\ TopName(miAnswers[i]) # YamlCases[i].expectedIntent

\* one call per test case, in the order of the list
OneCallPerCase ==
  /\ Len(miCalls) = Len(YamlCases)
  /\ \A i \in 1..Len(YamlCases) : miCalls[i].query = YamlCases[i].query[1]

LanguageGiven ==
  ~Falsy(LastMatchOp.yamlData[1].defaultLanguage) \/ LastMatchOp.language # <<>>

\* every call so far returned a response with a matchedIntents section
EveryCallAnswered ==
  /\ outcome \notin {"api_call_failed", "type_error"}
  /\ \A i \in 1..Len(miAnswers) : miAnswers[i].matchedIntents # <<>>

StorageSection(response, storage) ==
  IF ~response.hasEvents \/ response.events = <<>> THEN <<>>
  ELSE LET event == response.events[Len(response.events)]
       IN  IF event.executionState = <<>> THEN <<>>
           ELSE event.executionState[1][storage]

\* the parameter called name is in the field map of a storage section
ParamThere(section, name) ==
  /\ section # <<>>
  /\ section[1].hasFields
  /\ \E i \in 1..Len(section[1].fields) : section[1].fields[i].k = name

\* the typed value of a parameter that is there
ParamValue(section, name) ==
  LET i == CHOOSE i \in 1..Len(section[1].fields) : section[1].fields[i].k = name
  IN  section[1].fields[i].v

\* C21: getSessionParam, getUserParam and getHomeParam return the decoded
\* value of the named parameter of the storage of the latest execution event
\* of the response, and return null without raising when the parameter is
\* not there (no execution state, no storage section, a storage section
\* without a field map, or a name that is not among its fields).
C21_StorageParamDecodedOrNull ==
  (lastOp \in StorageGetters /\ checked # <<>>)
    => LET section == StorageSection(checked[1], callArgs[2])
       IN  /\ outcome = "ok"
           /\ returned =
                IF ParamThere(section, callArgs[3])
                THEN <<<<getValueFromField(ParamValue(section, callArgs[3])).v>>>>
                ELSE << <<>> >>

(***************************************************************************)
(* Properties of the sends (checked under Spec).                           *)
(***************************************************************************)
\* C22: when the send call fails, sendInteraction has made one attempt and
\* makes no other (the operation is over and no request is issued by the
\* failure), raises the error with the prefix 'sendInteraction API call
\* failed: ', and leaves the cached last response unchanged.
C22_FailedSendKeepsResponse ==
  [][(pc = "awaiting" /\ outcome' = "api_call_failed")
       => /\ pc' = "idle"
          /\ lastOp' = lastOp /\ lastOp \in SendOps
          /\ issued' = issued
          /\ sentRequest' = sentRequest
          /\ steps' = steps
          /\ latestResponse' = latestResponse]_vars

\* a send failed while a response was cached
C22_Witness ==
  /\ outcome = "api_call_failed"
  /\ lastOp \in SendOps
  /\ pc = "idle"
  /\ latestResponse # <<>>

(***************************************************************************)
(* Properties of the clean-up and of the cached response.                  *)
(***************************************************************************)
\* C24 (checked under ConfigSpec): cleanUpAfterTest makes the test-level
\* defaults an empty object, the cached last response null and the last user
\* query null, and leaves the suite-level defaults as they were; after it
\* the merged effective parameters are deep-equal to the suite defaults.
C24_CleanUpResetsTestLayer ==
  [][(lastOp' = "cleanUpAfterTest" /\ steps' = steps + 1)
       => /\ isPlainObject(heap', testInteractionDefaults')
          /\ KeySet(heap', testInteractionDefaults') = {}
          /\ latestResponse' = <<>>
          /\ lastUserQuery' = NULL
          /\ DeepEqual(heap, suiteInteractionDefaults,
                       heap', suiteInteractionDefaults')
          /\ LET merged == getDeepMerge(heap', suiteInteractionDefaults',
                                        testInteractionDefaults')
             IN  DeepEqual(merged.h, merged.v,
                           heap', suiteInteractionDefaults')]_vars

\* a clean-up that found a cached response
C24_Witness ==
  /\ lastOp = "cleanUpAfterTest"
  /\ prevResponse # <<>>
  /\ latestResponse = <<>>
  /\ lastUserQuery = NULL
  /\ KeySet(heap, testInteractionDefaults) = {}

\* C26 (checked under MergeSpec): merging a result with the same override
\* again changes nothing: getDeepMerge(getDeepMerge(A, B), B) is deep-equal
\* to getDeepMerge(A, B).
C26_MergeIsIdempotent ==
  mOp = "mergeAgain" => DeepEqual(heap, mResult, heap, mBase)

\* a result with a nested object of both inputs was merged with B again
C26_Witness ==
  /\ mOp = "mergeAgain"
  /\ isPlainObject(heap, mBase) /\ isPlainObject(heap, mTarget)
  /\ isPlainObject(heap, Get(heap, mBase, "deviceProperties"))
  /\ isPlainObject(heap, Get(heap, mTarget, "deviceProperties"))
  /\ KeySet(heap, Get(heap, mResult, "deviceProperties")) = {"locale", "surface"}
  /\ mResult # mBase

\* C27 (checked under Spec): the cached last response is null or a response
\* that has an output section and a diagnostics section.
C27_CachedResponseIsValid ==
  latestResponse # <<>>
    => latestResponse[1].hasOutput /\ latestResponse[1].hasDiagnostics

\* C28 (checked under Spec): whenever a response is cached and no send is
\* in progress, the last user query (the one error messages report) is the
\* query of the request that produced the cached response, also after a send
\* that failed.
C28_LastQueryProducedCachedResponse ==
  (latestResponse # <<>> /\ pc = "idle")
    => answeredQuery = <<lastUserQuery>>

(***************************************************************************)
(* Properties of the locale (checked under ConfigSpec).                    *)
(***************************************************************************)
\* the 'cancel' phrase of a locale
CancelPhrase(locale) ==
  CASE locale = "en-US" -> "cancel"
    [] locale = "fr-FR" -> "annuler"
    [] locale = "de-DE" -> "abbrechen"
    [] OTHER -> "cancel"

\* the locale of the request sendStop sent
SentLocale == PathGet(heap, sentRequest, <<"deviceProperties", "locale">>)

\* C29: the stop phrase sent by sendStop is the 'cancel' phrase of the locale
\* of the effective request parameters (the test-level locale if one is set
\* in the current test case, the suite-level locale otherwise), also after
\* setTestLocale followed by cleanUpAfterTest.
C29_StopPhraseOfEffectiveLocale ==
  (lastOp = "sendStop" /\ issued /\ SentLocale.t = "prim"
     /\ SentLocale.s \in SUPPORTED_LOCALES)
    => PathGet(heap, sentRequest, <<"input", "query">>)
         = Str(CancelPhrase(SentLocale.s))

\* C30: setSuiteLocale and setTestLocale called with a locale that is neither
\* a supported locale nor a key of the fallback locales raise an error and
\* leave the suite layer, the test layer and the locale of the stop phrase
\* as they were.
C30_UnknownLocaleChangesNothing ==
  [][(lastOp' \in {"setSuiteLocale", "setTestLocale"}
        /\ steps' = steps + 1
        /\ outcome' = "unsupported_locale")
       => /\ DeepEqual(heap, suiteInteractionDefaults,
                       heap', suiteInteractionDefaults')
          /\ DeepEqual(heap, testInteractionDefaults,
                       heap', testInteractionDefaults')
          /\ currentLocale' = currentLocale]_vars

(***************************************************************************)
(* Sends that the caller does not await.  sendInteraction is an async      *)
(* method: a call runs up to its await, where the request has been handed  *)
(* to the service, and returns a promise; the rest of the method runs when *)
(* the service answers.  Nothing in the method waits for an earlier call.  *)
(***************************************************************************)
ConcurrentQueries == {"hello", "bye"}

\* a request handed to the service and not answered yet
Pending(h, request) ==
  [query |-> Get(h, Get(h, request, "input"), "query"),
   conversationToken |-> Get(h, request, TOKEN_FIELD_NAME)]

\* s without its i-th element
RemoveAt(s, i) == SubSeq(s, 1, i - 1) \o SubSeq(s, i + 1, Len(s))

\* sendInteraction up to the await, called without awaiting its promise
sendInteractionNotAwaited(op, p) ==
  LET d == getTestInteractionMergedDefaults(p.h)
      m == getDeepMerge(d.h, d.v, p.v)
      interactionMergeParams == m.v
      h1 == setConversationToken(m.h, interactionMergeParams, latestResponse)
      input == Get(h1, interactionMergeParams, "input")
      h2 == SetField(h1, interactionMergeParams, "project", PROJECT)
      raised ==
        CASE latestResponse # <<>> /\ ~latestResponse[1].hasDiagnostics
               -> "type_error"
          [] latestResponse # <<>> /\ latestResponse[1].hasDiagnostics
               /\ getIsConversationEnded(latestResponse[1])
               -> "conversation_ended"
          [] OTHER -> IF input.t # "ref" THEN "type_error" ELSE "none"
  IN  /\ raised = "none"
      /\ Called(op, "pending", TRUE)
      /\ lastUserQuery' = Get(h2, input, "query")
      /\ Store(h2, suiteInteractionDefaults, testInteractionDefaults,
               interactionMergeParams, p.v)
      /\ inFlight' = Append(inFlight, Pending(h2, interactionMergeParams))
      /\ NothingRead
      /\ UNCHANGED <<latestResponse, currentLocale, pc, answered,
                     answeredQuery, lastReturned, mergeVars, decoderVars,
                     matchVars>>

SendQueryNotAwaited(queryText) ==
  sendInteractionNotAwaited("sendQuery", QueryParams(heap, Str(queryText)))

\* the call of the i-th pending request returns: the rest of sendInteraction
InFlightReturns(i, response) ==
  /\ i \in 1..Len(inFlight)
  /\ latestResponse' = <<response>>
  /\ outcome' = IF validResponse(response) THEN "ok" ELSE "invalid_response"
  /\ answered' = <<response>>
  /\ answeredQuery' = <<inFlight[i].query>>
  /\ lastReturned' = IF validResponse(response) THEN <<response>> ELSE lastReturned
  /\ inFlight' = RemoveAt(inFlight, i)
  /\ UNCHANGED <<heap, other, suiteInteractionDefaults, testInteractionDefaults,
                 lastUserQuery, currentLocale, sentRequest, callParams, lastOp,
                 issued, prevResponse, checked, returned, errorInfo, callArgs,
                 reads, steps, pc, mergeVars, decoderVars, matchVars>>

\* the call of the i-th pending request fails: its promise is rejected
InFlightFails(i) ==
  /\ i \in 1..Len(inFlight)
  /\ outcome' = "api_call_failed"
  /\ inFlight' = RemoveAt(inFlight, i)
  /\ UNCHANGED <<heap, other, suiteInteractionDefaults, testInteractionDefaults,
                 latestResponse, lastUserQuery, currentLocale, sentRequest,
                 callParams, lastOp, issued, prevResponse, checked, returned,
                 errorInfo, callArgs, reads, answered, answeredQuery,
                 lastReturned, steps, pc, mergeVars, decoderVars, matchVars>>

ConcurrentNext ==
  \/ \E queryText \in ConcurrentQueries : SendQueryNotAwaited(queryText)
  \/ \E i \in 1..MaxSteps, response \in Responses : InFlightReturns(i, response)
  \/ \E i \in 1..MaxSteps : InFlightFails(i)

ConcurrentSpec == Init /\ [][ConcurrentNext]_vars

(***************************************************************************)
(* Properties of concurrent sends                                          *)
(***************************************************************************)
\* C23: no two interaction requests are in flight at the same time against
\* one manager instance, so that no two pending requests carry the same
\* conversation token.
C23_OneRequestInFlight == Len(inFlight) <= 1

(***************************************************************************)
(* Two manager instances in one process.  Each instance has its own        *)
(* fields; the i18n object configured at the top of the module, and with   *)
(* it the current locale, is one object for the whole process.  The        *)
(* manager's variables are the fields of the instance the test calls next, *)
(* other holds the fields of the instance it does not.                     *)
(***************************************************************************)
\* new ActionsOnGoogleTestManager(...) twice
ManagersInit ==
  /\ \E lit1 \in ConstructorParams, lit2 \in ConstructorParams :
       LET p1 == Literal(DefaultHeap, lit1)
           s1 == getDeepMerge(p1.h, DEFAULT_INTERACTION_SETTING, p1.v)
           t1 == Alloc(s1.h, EmptyObject)
           p2 == Literal(t1.h, lit2)
           s2 == getDeepMerge(p2.h, DEFAULT_INTERACTION_SETTING, p2.v)
           t2 == Alloc(s2.h, EmptyObject)
           c == Collect(t2.h, <<s1.v, t1.v, s2.v, t2.v>>)
       IN  /\ heap = c.h
           /\ suiteInteractionDefaults = c.roots[1]
           /\ testInteractionDefaults = c.roots[2]
           /\ other = Manager(2, c.roots[3], c.roots[4], <<>>, NULL)
  /\ inFlight = <<>>
  /\ latestResponse = <<>>
  /\ lastUserQuery = NULL
  /\ currentLocale = DEFAULT_LOCALE
  /\ pc = "idle"
  /\ sentRequest = UNDEFINED
  /\ callParams = UNDEFINED
  /\ lastOp = "constructor"
  /\ outcome = "ok"
  /\ issued = FALSE
  /\ prevResponse = <<>>
  /\ checked = <<>>
  /\ answered = <<>>
  /\ answeredQuery = <<>>
  /\ lastReturned = <<>>
  /\ steps = 0
  /\ mBase = UNDEFINED
  /\ mTarget = UNDEFINED
  /\ mResult = UNDEFINED
  /\ mOp = "none"
  /\ mCalls = 0
  /\ returned = <<>>
  /\ errorInfo = NoError
  /\ callArgs = <<>>
  /\ reads = 0
  /\ DecoderIdle
  /\ MatchIdle

\* the test turns to its other manager instance: the next call is on it
SwitchManager ==
  /\ pc = "idle"
  /\ other.id # 0
  /\ other' = Manager(3 - other.id, suiteInteractionDefaults,
                      testInteractionDefaults, latestResponse, lastUserQuery)
  /\ suiteInteractionDefaults' = other.suiteInteractionDefaults
  /\ testInteractionDefaults' = other.testInteractionDefaults
  /\ latestResponse' = other.latestResponse
  /\ lastUserQuery' = other.lastUserQuery
  /\ UNCHANGED <<heap, currentLocale, pc, sentRequest, callParams, lastOp,
                 outcome, issued, prevResponse, checked, answered,
                 answeredQuery, lastReturned, steps, mergeVars, readVars,
                 extraVars>>

ManagersNext ==
  \/ SwitchManager
  \/ CleanUpAfterTest
  \/ \E locale \in LocaleArgs : SetSuiteLocale(locale)
  \/ \E locale \in LocaleArgs : SetTestLocale(locale)
  \/ \E queryText \in Queries : SendQuery(queryText)
  \/ SendStop
  \/ ApiCallReturns(ContinuingResponse(Str("token1")))

ManagersSpec == ManagersInit /\ [][ManagersNext]_vars

(***************************************************************************)
(* Properties of two manager instances                                     *)
(***************************************************************************)
\* the query a sendStop of the given instance sends: i18n.__('cancel') of
\* the module's i18n object, whichever the instance
StopQueryOf(manager) == getStopQuery

\* C25: two manager instances are isolated: an operation on one instance
\* leaves the other instance's configuration layers, cached response and
\* last user query as they are, and does not change the stop phrase a later
\* sendStop on the other instance sends.
C25_ManagersAreIsolated ==
  [][(other.id # 0 /\ other'.id = other.id)
       => /\ DeepEqual(heap, other.suiteInteractionDefaults,
                       heap', other'.suiteInteractionDefaults)
          /\ DeepEqual(heap, other.testInteractionDefaults,
                       heap', other'.testInteractionDefaults)
          /\ other'.latestResponse = other.latestResponse
          /\ other'.lastUserQuery = other.lastUserQuery
          /\ StopQueryOf(other)' = StopQueryOf(other)]_vars
====
